---- MODULE Spec2Model ----
(***************************************************************************)
(* Client-side synchronisation layer of the agent-desktop chat             *)
(* application: the Event Store reducer, the Event Tracker effect, the     *)
(* rate-limit Retry Controller and the localStorage persistence adapter.   *)
(*                                                                         *)
(* JavaScript values are represented as follows.                           *)
(*   - null is the marker Null.                                            *)
(*   - an optional field (number | undefined, string | undefined) is a     *)
(*     sequence of length at most one: << >> is undefined, <<v>> is v.      *)
(*   - an object is a function from its own keys; a key whose value is     *)
(*     << >> is "present but undefined", a key outside DOMAIN is absent.   *)
(***************************************************************************)
EXTENDS Integers, Sequences, FiniteSets, TLC

\* ------------------------------------------------------------------ bounds
MaxClock == 2

MaxEvents == 2

MaxParts == 2

MaxEntries == 2

MaxRetryAfter == 2

MaxFragments == 2
\* longest session list handed to saveSessions
MaxSupplied == 52

\* ----------------------------------------------------------- JS primitives
Null == "null"

Undefined == << >>

Some(v) == <<v>>

\* obj[k] in JavaScript: undefined when the key is absent
Get(obj, k) == IF k \in DOMAIN obj THEN obj[k] ELSE Undefined

\* { ...a, ...b }
Spread(a, b) ==
  [k \in DOMAIN a \cup DOMAIN b |-> IF k \in DOMAIN b THEN b[k] ELSE a[k]]

\* ------------------------------------------------------------- event types
ComputerActions ==
  {"screenshot", "left_click", "right_click", "double_click", "mouse_move",
   "type", "key", "scroll", "wait", "left_click_drag"}

ActionTypes == ComputerActions \cup {"bash"}

AgentStatuses == {"idle", "thinking", "executing"}

isComputerEvent(event) == event.type = "computer"

isBashEvent(event) == event.type = "bash"

createInitialEventCounts == [a \in ActionTypes |-> 0]

\* counts[actionType] = (counts[actionType] || 0) + 1
CountBump(counts, key) ==
  [k \in DOMAIN counts \cup {key} |->
     IF k = key
       THEN (IF key \in DOMAIN counts THEN counts[key] ELSE 0) + 1
       ELSE counts[k]]

RECURSIVE CountFold(_, _)
CountFold(counts, events) ==
  IF events = << >> THEN counts
  ELSE LET event == Head(events)
           next == IF isComputerEvent(event)
                     THEN CountBump(counts, event.payload.action)
                   ELSE IF isBashEvent(event)
                     THEN CountBump(counts, "bash")
                   ELSE counts
       IN CountFold(next, Tail(events))

calculateEventCounts(events) == CountFold(createInitialEventCounts, events)

\* ------------------------------------------------------ Event Store reducer
initialState ==
  [events |-> << >>,
   counts |-> createInitialEventCounts,
   agentStatus |-> "idle",
   selectedEventId |-> Null]

\* mutant: counts recomputed from the log as it was before the append
ReduceAddEvent_StaleCounts(state, event) ==
  [state EXCEPT !.events = Append(state.events, event),
                !.counts = calculateEventCounts(state.events)]

ReduceAddEvent(state, event) ==
  LET newEvents == Append(state.events, event)
  IN [state EXCEPT !.events = newEvents,
                   !.counts = calculateEventCounts(newEvents)]

\* mutant: an update of an unknown id is stored as a new event
ReduceUpdateEvent_Upsert(state, id, updates) ==
  IF \E i \in 1..Len(state.events) : state.events[i].id = id
    THEN LET newEvents == [i \in 1..Len(state.events) |->
                            IF state.events[i].id = id
                              THEN Spread(state.events[i], updates)
                              ELSE state.events[i]]
         IN [state EXCEPT !.events = newEvents,
                          !.counts = calculateEventCounts(newEvents)]
    ELSE LET newEvents == Append(state.events, Spread([id |-> id], updates))
         IN [state EXCEPT !.events = newEvents]

ReduceUpdateEvent(state, id, updates) ==
  LET newEvents == [i \in DOMAIN state.events |->
                      IF state.events[i].id = id
                        THEN Spread(state.events[i], updates)
                        ELSE state.events[i]]
  IN [state EXCEPT !.events = newEvents,
                   !.counts = calculateEventCounts(newEvents)]

ReduceSetAgentStatus(state, status) == [state EXCEPT !.agentStatus = status]

ReduceSelectEvent(state, eventId) == [state EXCEPT !.selectedEventId = eventId]

ReduceClearEvents(state) == initialState

ReduceLoadEvents(state, events) ==
  [state EXCEPT !.events = events,
                !.counts = calculateEventCounts(events)]

eventStoreReducer(state, action) ==
  CASE action.type = "ADD_EVENT" -> ReduceAddEvent(state, action.event)
    [] action.type = "UPDATE_EVENT" ->
         ReduceUpdateEvent(state, action.id, action.updates)
    [] action.type = "SET_AGENT_STATUS" ->
         ReduceSetAgentStatus(state, action.status)
    [] action.type = "SELECT_EVENT" -> ReduceSelectEvent(state, action.eventId)
    [] action.type = "CLEAR_EVENTS" -> ReduceClearEvents(state)
    [] action.type = "LOAD_EVENTS" -> ReduceLoadEvents(state, action.events)
    [] OTHER -> state

\* ------------------------------------------------------------ Event Tracker
\* The transport's message list: each message is [id, role, content, parts];
\* a part is a text part or a tool-invocation part.
TextPart(t) == [type |-> "text", text |-> t]

ToolPart(id, tool, phase, args, result) ==
  [type |-> "tool-invocation",
   toolInvocation |->
     [toolCallId |-> id, toolName |-> tool, state |-> phase,
      args |-> args, result |-> result]]

\* raw tool results: undefined, a string, or an object with a type tag
ResultNone == [kind |-> "undefined"]

ResultString(s) == [kind |-> "string", text |-> s]

ResultImage == [kind |-> "object", type |-> "image", data |-> Some("b64")]

ResultTextObj == [kind |-> "object", type |-> "text", text |-> Some("out")]

ResultOther == [kind |-> "object", type |-> "json"]

\* the strings the model feeds as results, and String.prototype.startsWith
ResultStrings ==
  {"", "ok", "User aborted", "Error: boom", "Error", "error lower",
   "no Error"}

StartsWith(s, prefix) ==
  CASE prefix = "Error" -> s \in {"Error: boom", "Error"}
    [] OTHER -> FALSE

\* if (result) ... : the empty string and undefined are falsy
Truthy(result) ==
  CASE result.kind = "undefined" -> FALSE
    [] result.kind = "string" -> result.text # ""
    [] OTHER -> TRUE

\* lines 146-171: the ToolResult stored on the event
ClassifyResult(result) ==
  IF ~Truthy(result) THEN Undefined
  ELSE IF result.kind = "string"
    THEN Some([type |-> "text", text |-> result.text])
  ELSE IF result.type = "image" /\ "data" \in DOMAIN result
    THEN Some([type |-> "image", data |-> result.data[1],
               mimeType |-> "image/png"])
  ELSE IF result.type = "text" /\ "text" \in DOMAIN result
    THEN Some([type |-> "text", text |-> result.text[1]])
  ELSE Undefined

\* mutant: only the abort sentinel is an error
IsErrorResult_AbortOnly(result) ==
  result.kind = "string" /\ result.text = "User aborted"

\* lines 174-176
IsErrorResult(result) ==
  /\ result.kind = "string"
  /\ \/ result.text = "User aborted"
     \/ StartsWith(result.text, "Error")

\* lines 178-183: the partial event handed to updateEvent
ResultUpdates(result, startTime, clock) ==
  [status |-> IF IsErrorResult(result) THEN "error" ELSE "complete",
   duration |-> IF startTime # Undefined /\ startTime[1] # 0
                  THEN Some(clock - startTime[1]) ELSE Undefined,
   result |-> ClassifyResult(result),
   error |-> IF IsErrorResult(result) THEN Some(result.text) ELSE Undefined]

\* lines 97-136: the pending event of a call delta; Undefined for a tool
\* that is neither computer nor bash
PendingEvent(inv, clock) ==
  IF inv.toolName = "computer"
    THEN Some([id |-> inv.toolCallId, timestamp |-> clock,
               type |-> "computer", toolType |-> "computer",
               payload |-> [action |-> inv.args.action],
               status |-> "pending"])
  ELSE IF inv.toolName = "bash"
    THEN Some([id |-> inv.toolCallId, timestamp |-> clock,
               type |-> "bash", toolType |-> "bash",
               payload |-> [command |-> inv.args.command],
               status |-> "pending"])
  ELSE Undefined

\* all parts of all messages, in the order the two nested loops visit them
RECURSIVE FlattenParts(_)
FlattenParts(messages) ==
  IF messages = << >> THEN << >>
  ELSE Head(messages).parts \o FlattenParts(Tail(messages))

\* lines 80-188: one iteration of the inner loop.  ts is the tracker's view
\* [store, processed, startTimes]; dispatches reach the reducer in order.
ProcessPart(ts, part, clock) ==
  IF part.type # "tool-invocation" THEN ts
  ELSE
    LET inv == part.toolInvocation
        stateKey == <<inv.toolCallId, inv.state>>
    IN IF stateKey \in ts.processed THEN ts
       ELSE IF inv.state = "call" THEN
         LET started == [k \in DOMAIN ts.startTimes \cup {inv.toolCallId} |->
                           IF k = inv.toolCallId THEN clock
                           ELSE ts.startTimes[k]]
             event == PendingEvent(inv, clock)
         IN IF event = Undefined
              THEN [ts EXCEPT !.startTimes = started]
              ELSE [store |-> eventStoreReducer(ts.store,
                                [type |-> "ADD_EVENT", event |-> event[1]]),
                    processed |-> ts.processed \cup {stateKey},
                    startTimes |-> started]
       ELSE IF inv.state = "result" THEN
         LET startTime == IF inv.toolCallId \in DOMAIN ts.startTimes
                            THEN Some(ts.startTimes[inv.toolCallId])
                            ELSE Undefined
         IN [store |-> eventStoreReducer(ts.store,
                         [type |-> "UPDATE_EVENT", id |-> inv.toolCallId,
                          updates |-> ResultUpdates(inv.result, startTime,
                                                    clock)]),
             processed |-> ts.processed \cup {stateKey},
             startTimes |-> [k \in DOMAIN ts.startTimes \ {inv.toolCallId}
                               |-> ts.startTimes[k]]]
       ELSE ts

RECURSIVE ProcessParts(_, _, _)
ProcessParts(ts, parts, clock) ==
  IF parts = << >> THEN ts
  ELSE ProcessParts(ProcessPart(ts, Head(parts), clock), Tail(parts), clock)

\* mutant: the phase of the invocation is not looked at
IsToolPartIn_AnyPhase(part, phase) ==
  part.type = "tool-invocation" /\ phase = "result"

IsToolPartIn(part, phase) ==
  part.type = "tool-invocation" /\ part.toolInvocation.state = phase

\* mutant: the agent is never reported as thinking
DeriveAgentStatus_NoThinking(messages, chatStatus) ==
  IF chatStatus = "error" THEN "idle"
  ELSE IF \E i \in 1..Len(messages) : \E j \in DOMAIN messages[i].parts :
            IsToolPartIn(messages[i].parts[j], "call")
    THEN "executing"
  ELSE "idle"

\* lines 24-74: the status handed to setAgentStatus
DeriveAgentStatus(messages, chatStatus) ==
  LET n == Len(messages)
      isChatReady == chatStatus = "ready"
      hasError == chatStatus = "error"
      hasAnyPendingTool ==
        \E i \in 1..n : \E j \in DOMAIN messages[i].parts :
          IsToolPartIn(messages[i].parts[j], "call")
      lastMessageAllToolsComplete ==
        n = 0 \/ \A j \in DOMAIN messages[n].parts :
                   \/ messages[n].parts[j].type # "tool-invocation"
                   \/ IsToolPartIn(messages[n].parts[j], "result")
  IN IF hasError THEN "idle"
     ELSE IF n > 0 /\ messages[n].role = "assistant" THEN
       IF hasAnyPendingTool THEN "executing"
       ELSE IF ~isChatReady \/ ~lastMessageAllToolsComplete THEN "thinking"
       ELSE "idle"
     ELSE IF n = 0 \/ messages[n].role = "user" THEN
       IF isChatReady /\ ~hasAnyPendingTool THEN "idle"
       ELSE IF hasAnyPendingTool THEN "executing"
       ELSE "thinking"
     ELSE "idle"

\* lines 22-190: the whole effect for one (messages, chatStatus) pair
TrackerEffect(ts, messages, chatStatus, clock) ==
  LET withStatus ==
        [ts EXCEPT !.store = eventStoreReducer(ts.store,
            [type |-> "SET_AGENT_STATUS",
             status |-> DeriveAgentStatus(messages, chatStatus)])]
  IN IF chatStatus = "error" THEN withStatus
     ELSE ProcessParts(withStatus, FlattenParts(messages), clock)

\* --------------------------------------------------------- error helpers
\* An error value is [isObject, isError, status, lastError, message]:
\*   isObject   typeof error === 'object' && error !== null
\*   isError    error instanceof Error
\*   status     the own property `status` (optional)
\*   lastError  the own property `lastError` when it is an object (optional):
\*              [statusCode, message, responseHeaders]
\*   message    the text of error.message (or of the string itself), as the
\*              set of fragments it is made of
\* A text is searched with String.prototype.includes; Phrases(f) lists the
\* needles of the code that fragment f contains, case-sensitively.
MessageFragments ==
  {"rate limit", "Rate Limit", "rate_limit", "429", "per minute",
   "Per Minute", "per hour", "Per Hour", "per day", "failed after",
   "timeout", "retry-after: 0", "retry-after: 2", "Retry After 3"}

Phrases(f) ==
  CASE f = "rate limit" -> {"rate limit"}
    [] f = "rate_limit" -> {"rate_limit"}
    [] f = "429" -> {"429"}
    [] f = "per minute" -> {"per minute"}
    [] f = "per hour" -> {"per hour"}
    [] f = "per day" -> {"per day"}
    [] f = "failed after" -> {"failed after"}
    [] OTHER -> {}

\* String.prototype.toLowerCase on one fragment
LowerFragment(f) ==
  CASE f = "Rate Limit" -> "rate limit"
    [] f = "Per Minute" -> "per minute"
    [] f = "Per Hour" -> "per hour"
    [] f = "Retry After 3" -> "retry after 3"
    [] OTHER -> f

toLowerCase(text) == {LowerFragment(f) : f \in text}

includes(text, needle) == \E f \in text : needle \in Phrases(f)

\* parseInt(s, 10): Undefined stands for NaN
parseInt(s) ==
  CASE s = "0" -> Some(0)
    [] s = "2" -> Some(2)
    [] s = "3" -> Some(3)
    [] s = "3 seconds" -> Some(3)
    [] OTHER -> Undefined

\* errorMessage.match(/retry[_\s-]?after[:\s]+(\d+)/i): the captured digits
RetryAfterDigits(f) ==
  CASE f = "retry-after: 0" -> Some("0")
    [] f = "retry-after: 2" -> Some("2")
    [] f = "Retry After 3" -> Some("3")
    [] OTHER -> Undefined

RetryAfterMatch(text) ==
  IF \E f \in text : RetryAfterDigits(f) # Undefined
    THEN RetryAfterDigits(CHOOSE f \in text : RetryAfterDigits(f) # Undefined)
    ELSE Undefined

\* error instanceof Error ? error.message : String(error)
ErrorMessageOf(error) ==
  IF error.isError \/ ~error.isObject THEN error.message ELSE {}

HasNestedError(error) == error.isObject /\ error.lastError # Undefined

\* mutant: every failure is taken for a rate limit
isRateLimitError_Always(error) == TRUE

isRateLimitError(error) ==
  IF ~error.isObject THEN FALSE
  ELSE IF error.status = Some(429) THEN TRUE
  ELSE IF HasNestedError(error) /\ error.lastError[1].statusCode = Some(429)
    THEN TRUE
  ELSE LET lowerMessage == toLowerCase(ErrorMessageOf(error))
       IN \/ includes(lowerMessage, "rate limit")
          \/ includes(lowerMessage, "exceed the rate limit")
          \/ includes(lowerMessage, "429")
          \/ includes(lowerMessage, "rate_limit")
          \/ /\ includes(lowerMessage, "failed after")
             /\ includes(lowerMessage, "rate limit")

PerMinuteWait == 60

PerHourWait == 3600 + 60

PerDayWait == 86400 + 300

RateLimitWait == 60

\* lines 61-84: the retry-after response header of the wrapped error.
\* A header value is [kind |-> "number", n |-> ..] or
\* [kind |-> "string", text |-> ..].
HeaderRetryAfter(error) ==
  IF /\ HasNestedError(error)
     /\ error.lastError[1].responseHeaders # Undefined
     /\ "retry-after" \in DOMAIN error.lastError[1].responseHeaders[1]
    THEN LET retryAfter == error.lastError[1].responseHeaders[1]["retry-after"]
         IN IF retryAfter.kind = "string" THEN parseInt(retryAfter.text)
            ELSE IF retryAfter.kind = "number" THEN Some(retryAfter.n)
            ELSE Undefined
    ELSE Undefined

\* Undefined stands for the null return
extractRetryAfter(error) ==
  LET errorMessage == ErrorMessageOf(error)
      retryMatch == RetryAfterMatch(errorMessage)
  IN IF HeaderRetryAfter(error) # Undefined THEN HeaderRetryAfter(error)
     ELSE IF retryMatch # Undefined THEN parseInt(retryMatch[1])
     ELSE IF \/ includes(errorMessage, "per minute")
             \/ includes(toLowerCase(errorMessage), "per minute")
       THEN Some(PerMinuteWait)
     ELSE IF includes(errorMessage, "per hour") THEN Some(PerHourWait)
     ELSE IF includes(errorMessage, "per day") THEN Some(PerDayWait)
     ELSE IF \/ includes(toLowerCase(errorMessage), "rate limit")
             \/ includes(errorMessage, "429")
       THEN Some(RateLimitWait)
     ELSE Undefined

DefaultRetryAfter == 65

\* extractRetryAfter(error) || 65
RetryAfterOrDefault(error) ==
  LET extracted == extractRetryAfter(error)
  IN IF extracted = Undefined \/ extracted[1] = 0 THEN DefaultRetryAfter
     ELSE extracted[1]

\* String.prototype.trim on the input box contents the model uses
trim(s) ==
  CASE s = "  " -> ""
    [] s = " fb " -> "fb"
    [] OTHER -> s

\* lines 171-198: the text to resend, Null when none can be found
RECURSIVE LastUserMessage(_)
LastUserMessage(messages) ==
  IF messages = << >> THEN Undefined
  ELSE IF messages[Len(messages)].role = "user"
    THEN Some(messages[Len(messages)])
  ELSE LastUserMessage(SubSeq(messages, 1, Len(messages) - 1))

FirstTextPart(parts) ==
  IF \E j \in DOMAIN parts : parts[j].type = "text"
    THEN parts[CHOOSE j \in DOMAIN parts :
                 /\ parts[j].type = "text"
                 /\ \A k \in 1..(j - 1) : parts[k].type # "text"].text
    ELSE Null

ExtractMessageText(messages, inputFallback) ==
  LET lastUserMessage == LastUserMessage(messages)
      fromMessage ==
        IF lastUserMessage = Undefined THEN Null
        ELSE IF "content" \in DOMAIN lastUserMessage[1]
          THEN lastUserMessage[1].content
        ELSE IF "parts" \in DOMAIN lastUserMessage[1]
          THEN FirstTextPart(lastUserMessage[1].parts)
        ELSE Null
  IN IF fromMessage \notin {Null, ""} THEN fromMessage
     ELSE IF trim(inputFallback) # "" THEN trim(inputFallback)
     ELSE Null

\* ------------------------------------------------------------------- state
VARIABLES
  eventStore,          \* EventStoreProvider: the reducer's state
  processedToolCalls,  \* useEventTracker: Set of `${toolCallId}-${state}`
  eventStartTimes,     \* useEventTracker: Map toolCallId -> start instant
  now,                 \* Date.now()
  firstPhase,          \* history: toolCallId -> phase the reconciliation
                       \* loop first scanned it in
  failure,             \* transport: the error about to reach onError
  rateLimitState,      \* useRateLimit: state (Undefined is null)
  intervalRef,         \* useRateLimit: intervalRef.current (0 is null)
  retryCallbackRef,    \* useRateLimit: retryCallbackRef.current (0 is null)
  intervals,           \* event loop: the live setInterval timers
  timeouts,            \* event loop: the pending setTimeout callbacks
  resends,             \* history: the invocations of a resend callback
  entries,             \* history: the countdowns handleRateLimit started
  cancelled,           \* history: the countdowns cancel() was called on
  lastOp,              \* history: the handler that ran last
  storage,             \* localStorage: the item under SESSION_STORAGE_KEY
  capacity,            \* localStorage: the quota of the medium
  windowDefined,       \* typeof window !== 'undefined'
  lastSave,            \* history: the last saveSessions run
  loaded,              \* history: what the last loadSessions returned
  found,               \* history: what the last getSession returned
  calls,               \* history: the latest call of the Event Store, or
                       \* the latest two when both are selections
  lastStream,          \* history: the messages and transport status of the
                       \* latest stream change
  sessionStore,        \* SessionStoreState: sessions, activeSessionId, isLoading
  uuids,               \* how many ids crypto.randomUUID() has handed out
  sessionCall,         \* history: the latest call of the Session Store
  initializing,        \* the session an initialize() in flight works on
  deleted,             \* history: the ids deleteSession was called with
  chatMessages,        \* useChat: messages
  streamStatus,        \* useChat: status
  lastSavedMessagesRef, \* ChatContent: signature of the messages saved last
                       \* (the empty sequence is '')
  saveTimeoutRef,      \* ChatContent: the pending save timer (Undefined is
                       \* null), with the session and messages it closed over
  eventsRef,           \* ChatContent: the events handed to the last save
  desktopCall,         \* getDesktopURL: the call in progress, with the
                       \* attempts it has made
  vnc                  \* useVNC: state, refs and the calls in flight

eventVars ==
  <<eventStore, processedToolCalls, eventStartTimes, now, firstPhase>>

retryVars ==
  <<failure, rateLimitState, intervalRef, retryCallbackRef, intervals,
    timeouts, resends, entries, cancelled, lastOp>>

storageVars ==
  <<storage, capacity, windowDefined, lastSave, loaded, found>>

callVars == <<calls, lastStream>>

sessionVars == <<sessionStore, uuids, sessionCall>>

payloadVars == <<initializing, deleted>>

pageVars ==
  <<chatMessages, streamStatus, lastSavedMessagesRef, saveTimeoutRef,
    eventsRef>>

vncVars == <<desktopCall, vnc>>

vars ==
  <<eventVars, retryVars, storageVars, callVars, sessionVars, payloadVars,
    pageVars, vncVars>>

InitEvents ==
  /\ eventStore = initialState
  /\ processedToolCalls = {}
  /\ eventStartTimes = << >>
  /\ now = 1
  /\ firstPhase = << >>

InitRetry ==
  /\ failure = Undefined
  /\ rateLimitState = Undefined
  /\ intervalRef = 0
  /\ retryCallbackRef = 0
  /\ intervals = {}
  /\ timeouts = {}
  /\ resends = << >>
  /\ entries = << >>
  /\ cancelled = {}
  /\ lastOp = "mount"

InitStorage ==
  /\ storage = Undefined
  /\ capacity = 0
  /\ windowDefined = TRUE
  /\ lastSave = Undefined
  /\ loaded = Undefined
  /\ found = Undefined

InitCalls == calls = << >> /\ lastStream = Undefined

\* session-store.tsx lines 40-44
sessionInitialState ==
  [sessions |-> << >>, activeSessionId |-> Null, isLoading |-> TRUE]

InitSessionStore ==
  /\ sessionStore = sessionInitialState
  /\ uuids = 0
  /\ sessionCall = Undefined
  /\ initializing = Undefined
  /\ deleted = {}

\* part_013 lines 47-60, 107-108 and 151
InitPage ==
  /\ chatMessages = << >>
  /\ streamStatus = "ready"
  /\ lastSavedMessagesRef = << >>
  /\ saveTimeoutRef = Undefined
  /\ eventsRef = << >>

\* use-vnc.ts lines 25-31, with the initialize() call in flight, the number
\* of getDesktopURL calls awaited, what the last initialize() ended with and
\* whether the last call of initialize() returned at line 45
vncInitialState ==
  [streamUrl |-> Null, sandboxId |-> Null, isInitializing |-> FALSE,
   isInitializingRef |-> FALSE, lastInitializedSessionIdRef |-> Null,
   call |-> Undefined, inFlight |-> 0, settled |-> Undefined,
   returnedEarly |-> FALSE]

InitVnc ==
  /\ desktopCall = Undefined
  /\ vnc = vncInitialState

Init ==
  /\ InitEvents
  /\ InitRetry
  /\ InitStorage
  /\ InitCalls
  /\ InitSessionStore
  /\ InitPage
  /\ InitVnc

\* ------------------------------------------------- inputs of the event side
ToolCallIds == {"t1", "t2"}

ChatStatuses == {"submitted", "streaming", "ready", "error"}

InputActions == {"screenshot", "zoom"}

MkEvent(id, type, detail, clock) ==
  IF type = "computer"
    THEN [id |-> id, timestamp |-> clock, type |-> "computer",
          toolType |-> "computer", payload |-> [action |-> detail],
          status |-> "pending"]
    ELSE [id |-> id, timestamp |-> clock, type |-> "bash",
          toolType |-> "bash", payload |-> [command |-> detail],
          status |-> "pending"]

InputEvents ==
  {MkEvent(id, "computer", a, 1) : id \in ToolCallIds, a \in InputActions}
    \cup {MkEvent(id, "bash", "ls", 1) : id \in ToolCallIds}

InputUpdates ==
  {ResultUpdates(ResultString("ok"), Some(1), 1),
   ResultUpdates(ResultString("Error: boom"), Undefined, 1),
   [payload |-> [action |-> "screenshot"]]}

InputEventLists ==
  {<< >>} \cup {<<e>> : e \in InputEvents}
    \cup {<<e1, e2>> : e1 \in InputEvents, e2 \in InputEvents}

\* ------------------------------------------------- Event Store, called direct
AddEvent(event) ==
  /\ Len(eventStore.events) < MaxEvents
  /\ eventStore' = eventStoreReducer(eventStore,
                     [type |-> "ADD_EVENT", event |-> event])
  /\ UNCHANGED <<processedToolCalls, eventStartTimes, now, firstPhase>>

UpdateEvent(id, updates) ==
  /\ eventStore' = eventStoreReducer(eventStore,
                     [type |-> "UPDATE_EVENT", id |-> id, updates |-> updates])
  /\ UNCHANGED <<processedToolCalls, eventStartTimes, now, firstPhase>>

SetAgentStatus(status) ==
  /\ eventStore' = eventStoreReducer(eventStore,
                     [type |-> "SET_AGENT_STATUS", status |-> status])
  /\ UNCHANGED <<processedToolCalls, eventStartTimes, now, firstPhase>>

SelectEvent(eventId) ==
  /\ eventStore' = eventStoreReducer(eventStore,
                     [type |-> "SELECT_EVENT", eventId |-> eventId])
  /\ UNCHANGED <<processedToolCalls, eventStartTimes, now, firstPhase>>

ClearEvents ==
  /\ eventStore' = eventStoreReducer(eventStore, [type |-> "CLEAR_EVENTS"])
  /\ UNCHANGED <<processedToolCalls, eventStartTimes, now, firstPhase>>

LoadEvents(events) ==
  /\ eventStore' = eventStoreReducer(eventStore,
                     [type |-> "LOAD_EVENTS", events |-> events])
  /\ UNCHANGED <<processedToolCalls, eventStartTimes, now, firstPhase>>

NextStore ==
  \/ \E event \in InputEvents : AddEvent(event)
  \/ \E id \in ToolCallIds \cup {"t9"}, updates \in InputUpdates :
       UpdateEvent(id, updates)
  \/ \E status \in AgentStatuses : SetAgentStatus(status)
  \/ \E eventId \in ToolCallIds \cup {"t9", Null} : SelectEvent(eventId)
  \/ ClearEvents
  \/ \E events \in InputEventLists : LoadEvents(events)

SpecStore ==
  Init /\ [][NextStore /\ UNCHANGED <<retryVars, storageVars, callVars, sessionVars,
                  payloadVars, pageVars,
                  vncVars>>]_vars

\* ---------------------------------------------- Event Store, calls recorded
\* mutant: a click always selects the card's event
handleClick_AlwaysSelects(state, toolCallId) == toolCallId

\* PurePreviewMessage.handleClick: the id it passes to selectEvent
handleClick(state, toolCallId) ==
  IF state.selectedEventId = toolCallId THEN Null ELSE toolCallId

\* the card is rendered, and can be clicked, once the event is in the store
HandleClick(toolCallId) ==
  /\ \E i \in 1..Len(eventStore.events) :
       eventStore.events[i].id = toolCallId
  /\ SelectEvent(handleClick(eventStore, toolCallId))

SelectionCalls == {"selectEvent", "handleClick"}

Recorded(op, arg) ==
  LET call == [op |-> op, arg |-> arg, before |-> eventStore]
  IN calls' = IF /\ op \in SelectionCalls
                 /\ calls # << >>
                 /\ calls[Len(calls)].op \in SelectionCalls
                THEN <<calls[Len(calls)], call>>
                ELSE <<call>>

CallEvents ==
  {MkEvent("t1", "computer", "screenshot", 1), MkEvent("t2", "bash", "ls", 1)}

CallUpdates ==
  {ResultUpdates(ResultString("ok"), Some(1), 1),
   ResultUpdates(ResultString("Error: boom"), Undefined, 1),
   [status |-> "pending"]}

NextCalls ==
  \/ \E event \in CallEvents :
       AddEvent(event) /\ Recorded("addEvent", event.id)
  \/ \E id \in ToolCallIds \cup {"t9"}, updates \in CallUpdates :
       UpdateEvent(id, updates) /\ Recorded("updateEvent", id)
  \/ \E status \in {"idle", "executing"} :
       SetAgentStatus(status) /\ Recorded("setAgentStatus", status)
  \/ \E eventId \in ToolCallIds \cup {Null} :
       SelectEvent(eventId) /\ Recorded("selectEvent", eventId)
  \/ \E toolCallId \in ToolCallIds :
       HandleClick(toolCallId) /\ Recorded("handleClick", toolCallId)
  \/ ClearEvents /\ Recorded("clearEvents", Null)
  \/ \E events \in {<< >>} \cup {<<e>> : e \in CallEvents} :
       LoadEvents(events) /\ Recorded("loadEvents", Null)

SpecCalls ==
  Init /\ [][NextCalls /\ UNCHANGED <<retryVars, storageVars, lastStream, sessionVars,
                  payloadVars, pageVars,
                  vncVars>>]_vars

\* ---------------------------------------------------- Event Tracker, driven
\* each tool call id belongs to one tool: t1 to computer, t2 to bash
StreamToolCalls ==
  {[id |-> "t1", tool |-> "computer", args |-> [action |-> "screenshot"]],
   [id |-> "t2", tool |-> "bash", args |-> [command |-> "ls"]]}

StreamResults(tool) ==
  IF tool = "computer" THEN {"ok", "Error: boom"} ELSE {"ok"}

StreamParts ==
  {TextPart("hi")}
    \cup {ToolPart(c.id, c.tool, "call", c.args, ResultNone) :
            c \in StreamToolCalls}
    \cup UNION {{ToolPart(c.id, c.tool, "result", c.args, ResultString(r)) :
                   r \in StreamResults(c.tool)} : c \in StreamToolCalls}

SeqsUpTo(S, n) == UNION {[1..k -> S] : k \in 0..n}

UserMessage(id) ==
  [id |-> id, role |-> "user", content |-> "hi", parts |-> <<TextPart("hi")>>]

AssistantMessage(id, parts) ==
  [id |-> id, role |-> "assistant", content |-> "", parts |-> parts]

\* the snapshots fed to the hook: an empty chat, a user turn, and a user turn
\* followed by an agent turn that carries up to MaxParts parts
Snapshots ==
  {<< >>, <<UserMessage("m1")>>}
    \cup {<<UserMessage("m1"), AssistantMessage("m2", ps)>> :
            ps \in SeqsUpTo(StreamParts, MaxParts)}

IsTrackedDelta(part) ==
  /\ part.type = "tool-invocation"
  /\ part.toolInvocation.toolName \in {"computer", "bash"}
  /\ part.toolInvocation.state \in {"call", "result"}

RECURSIVE RecordFirstPhase(_, _)
RecordFirstPhase(fp, parts) ==
  IF parts = << >> THEN fp
  ELSE LET part == Head(parts)
           id == part.toolInvocation.toolCallId
           next == IF IsTrackedDelta(part) /\ id \notin DOMAIN fp
                     THEN [k \in DOMAIN fp \cup {id} |->
                             IF k = id THEN part.toolInvocation.state
                             ELSE fp[k]]
                     ELSE fp
       IN RecordFirstPhase(next, Tail(parts))

\* the effect re-runs whenever messages or chatStatus change
StreamChange(messages, chatStatus) ==
  LET ts == TrackerEffect([store |-> eventStore,
                           processed |-> processedToolCalls,
                           startTimes |-> eventStartTimes],
                          messages, chatStatus, now)
  IN /\ eventStore' = ts.store
     /\ processedToolCalls' = ts.processed
     /\ eventStartTimes' = ts.startTimes
     /\ firstPhase' = IF chatStatus = "error" THEN firstPhase
                      ELSE RecordFirstPhase(firstPhase, FlattenParts(messages))
     /\ UNCHANGED now

ClockAdvance ==
  /\ now < MaxClock
  /\ now' = now + 1
  /\ UNCHANGED <<eventStore, processedToolCalls, eventStartTimes, firstPhase>>

NextTracker ==
  \/ \E messages \in Snapshots, chatStatus \in ChatStatuses :
       StreamChange(messages, chatStatus)
  \/ ClockAdvance

\* --------------------------------------- Event Tracker, stream shapes recorded
SystemMessage(id) ==
  [id |-> id, role |-> "system", content |-> "hi", parts |-> <<TextPart("hi")>>]

StatusPartLists ==
  LET call == ToolPart("t1", "computer", "call",
                       [action |-> "screenshot"], ResultNone)
      partial == ToolPart("t1", "computer", "partial-call",
                          [action |-> "screenshot"], ResultNone)
      result == ToolPart("t1", "computer", "result",
                         [action |-> "screenshot"], ResultString("ok"))
      other == ToolPart("t2", "bash", "result",
                        [command |-> "ls"], ResultString("ok"))
  IN {<< >>, <<TextPart("hi")>>, <<call>>, <<partial>>, <<result>>,
      <<other, call>>, <<TextPart("hi"), result>>}

StatusMessages(id) ==
  {UserMessage(id), SystemMessage(id)}
    \cup {AssistantMessage(id, ps) : ps \in StatusPartLists}

StatusSnapshots ==
  {<< >>}
    \cup {<<m>> : m \in StatusMessages("m1")}
    \cup {<<m, n>> : m \in StatusMessages("m1"), n \in StatusMessages("m2")}

RecordedStreamChange(messages, chatStatus) ==
  /\ StreamChange(messages, chatStatus)
  /\ lastStream' = Some([messages |-> messages, chatStatus |-> chatStatus])

NextStatus ==
  \E messages \in StatusSnapshots, chatStatus \in ChatStatuses :
    RecordedStreamChange(messages, chatStatus)

SpecStatus ==
  Init /\ [][NextStatus /\ UNCHANGED <<retryVars, storageVars, calls, sessionVars,
                  payloadVars, pageVars,
                  vncVars>>]_vars

SpecTracker ==
  Init /\ [][NextTracker /\ UNCHANGED <<retryVars, storageVars, callVars, sessionVars,
                  payloadVars, pageVars,
                  vncVars>>]_vars

\* --------------------------------------------------------- Retry Controller
\* clearInterval(id): clearing null or a dead timer does nothing
ClearInterval(timers, id) == {t \in timers : t.id # id}

\* lines 209-232 and 237-285: a countdown begins.  The timer and the callback
\* of the n-th countdown are both identified by n.
StartCountdown(error, messageText) ==
  LET n == Len(entries) + 1
      retryAfter == RetryAfterOrDefault(error)
      kind == IF messageText = Null THEN "display" ELSE "retry"
  IN /\ rateLimitState' = Some([isWaiting |-> TRUE, countdown |-> retryAfter,
                                message |-> messageText])
     /\ intervals' = ClearInterval(intervals, intervalRef)
                       \cup {[id |-> n, kind |-> kind]}
     /\ intervalRef' = n
     /\ retryCallbackRef' = IF messageText = Null THEN retryCallbackRef ELSE n
     /\ entries' = Append(entries, [error |-> error, countdown |-> retryAfter,
                                    message |-> messageText])
     /\ UNCHANGED <<timeouts, resends, cancelled>>

\* lines 158-294
HandleRateLimit(error, messages, inputFallback) ==
  /\ IF ~isRateLimitError(error)
       THEN UNCHANGED <<rateLimitState, intervalRef, retryCallbackRef,
                        intervals, timeouts, resends, entries, cancelled>>
       ELSE StartCountdown(error, ExtractMessageText(messages, inputFallback))
  /\ lastOp' = "handleRateLimit"

\* the transport reports a failure
TransportFails(error) ==
  /\ failure = Undefined
  /\ Len(entries) < MaxEntries
  /\ failure' = Some(error)
  /\ UNCHANGED <<rateLimitState, intervalRef, retryCallbackRef, intervals,
                 timeouts, resends, entries, cancelled, lastOp>>

\* useChat onError (part_013 lines 67-90)
OnError(messages, input) ==
  /\ failure # Undefined
  /\ failure' = Undefined
  /\ IF isRateLimitError(failure[1])
       THEN HandleRateLimit(failure[1], messages, input)
       ELSE /\ lastOp' = "errorToast"
            /\ UNCHANGED <<rateLimitState, intervalRef, retryCallbackRef,
                           intervals, timeouts, resends, entries, cancelled>>

\* lines 149-156
Cancel ==
  /\ intervals' = ClearInterval(intervals, intervalRef)
  /\ intervalRef' = 0
  /\ rateLimitState' = Undefined
  /\ retryCallbackRef' = 0
  /\ cancelled' = cancelled \cup {Len(entries)}
  /\ lastOp' = "cancel"
  /\ UNCHANGED <<failure, timeouts, resends, entries>>

\* lines 254-285: one firing of the interval of a countdown that captured a
\* message, with its state updater
TickRetry(timer) ==
  LET prev == rateLimitState
  IN IF prev = Undefined \/ prev[1].countdown <= 1
       THEN /\ intervals' = ClearInterval(intervals, intervalRef)
            /\ intervalRef' = 0
            /\ timeouts' =
                 IF /\ prev # Undefined
                    /\ prev[1].message \notin {Null, ""}
                    /\ retryCallbackRef # 0
                   THEN timeouts \cup {[origin |-> timer.id,
                                        message |-> prev[1].message]}
                   ELSE timeouts
            /\ rateLimitState' =
                 IF prev # Undefined
                   THEN Some([prev[1] EXCEPT !.countdown = 0,
                                             !.isWaiting = TRUE])
                   ELSE Undefined
       ELSE /\ rateLimitState' =
                 Some([prev[1] EXCEPT !.countdown = prev[1].countdown - 1])
            /\ UNCHANGED <<intervals, intervalRef, timeouts>>

\* lines 220-232: one firing of the interval of a countdown without message
TickDisplay(timer) ==
  LET prev == rateLimitState
  IN IF prev = Undefined \/ prev[1].countdown <= 1
       THEN /\ intervals' = ClearInterval(intervals, intervalRef)
            /\ intervalRef' = 0
            /\ rateLimitState' = Undefined
            /\ UNCHANGED timeouts
       ELSE /\ rateLimitState' =
                 Some([prev[1] EXCEPT !.countdown = prev[1].countdown - 1])
            /\ UNCHANGED <<intervals, intervalRef, timeouts>>

Tick(timer) ==
  /\ timer \in intervals
  /\ IF timer.kind = "retry" THEN TickRetry(timer) ELSE TickDisplay(timer)
  /\ lastOp' = "tick"
  /\ UNCHANGED <<failure, retryCallbackRef, resends, entries, cancelled>>

\* lines 265-277: the deferred resend scheduled by the expiry tick
FireTimeout(timeout) ==
  /\ timeout \in timeouts
  /\ timeouts' = timeouts \ {timeout}
  /\ resends' =
       IF retryCallbackRef # 0 /\ timeout.message \notin {Null, ""}
         THEN Append(resends,
                [callback |-> retryCallbackRef, message |-> timeout.message,
                 origin |-> timeout.origin,
                 originCancelled |-> timeout.origin \in cancelled])
         ELSE resends
  /\ rateLimitState' = Undefined
  /\ retryCallbackRef' = 0
  /\ lastOp' = "timeout"
  /\ UNCHANGED <<failure, intervalRef, intervals, entries, cancelled>>

\* ------------------------------------------- inputs of the Retry Controller
PlainError(status, lastError, message) ==
  [isObject |-> TRUE, isError |-> TRUE, status |-> status,
   lastError |-> lastError, message |-> message]

NestedError(statusCode, message, responseHeaders) ==
  Some([statusCode |-> statusCode, message |-> message,
        responseHeaders |-> responseHeaders])

HeaderNumber(n) == Some([x \in {"retry-after"} |-> [kind |-> "number", n |-> n]])

HeaderString(s) ==
  Some([x \in {"retry-after"} |-> [kind |-> "string", text |-> s]])

\* failures whose countdown is short enough to be followed to its end
TimedErrors ==
  {PlainError(Undefined, NestedError(Some(429), {}, HeaderNumber(n)),
              {"rate limit"}) : n \in 1..MaxRetryAfter}
    \cup {PlainError(Some(500), Undefined, {"timeout"})}

ChatOf(texts) ==
  [i \in DOMAIN texts |->
     [id |-> texts[i], role |-> "user", content |-> texts[i],
      parts |-> <<TextPart(texts[i])>>]]

\* the (messages, input box) pairs at the time of the failure
ChatInputs ==
  {[messages |-> ChatOf(<<"m1">>), input |-> ""],
   [messages |-> ChatOf(<<"m1", "m2">>), input |-> " fb "],
   [messages |-> << >>, input |-> "  "]}

NextRetry ==
  \/ \E error \in TimedErrors : TransportFails(error)
  \/ \E chat \in ChatInputs : OnError(chat.messages, chat.input)
  \/ \E timer \in intervals : Tick(timer)
  \/ \E timeout \in timeouts : FireTimeout(timeout)
  \/ Cancel

SpecRetry ==
  Init /\ [][NextRetry /\ UNCHANGED <<eventVars, storageVars, callVars, sessionVars,
                  payloadVars, pageVars,
                  vncVars>>]_vars

\* ------------------------------------------------ classification of failures
Texts ==
  {text \in SUBSET MessageFragments :
     /\ Cardinality(text) <= MaxFragments
     /\ Cardinality({f \in text : RetryAfterDigits(f) # Undefined}) <= 1}

ResponseHeaders ==
  {Undefined, Some(<< >>), HeaderNumber(0), HeaderNumber(2),
   HeaderString("3"), HeaderString("soon")}

NestedErrors ==
  {Undefined}
    \cup {NestedError(statusCode, message, headers) :
            statusCode \in {Undefined, Some(429)},
            message \in {{}, {"rate limit"}},
            headers \in ResponseHeaders}

\* thrown strings, plain objects and Error instances
Errors ==
  {[isObject |-> FALSE, isError |-> FALSE, status |-> Undefined,
    lastError |-> Undefined, message |-> text] : text \in Texts}
    \cup {[isObject |-> TRUE, isError |-> isError, status |-> status,
           lastError |-> lastError, message |-> text] :
            isError \in BOOLEAN, status \in {Undefined, Some(429), Some(500)},
            lastError \in NestedErrors, text \in Texts}

InitClassify ==
  /\ InitEvents
  /\ failure \in {Some(error) : error \in Errors}
  /\ rateLimitState = Undefined
  /\ intervalRef = 0
  /\ retryCallbackRef = 0
  /\ intervals = {}
  /\ timeouts = {}
  /\ resends = << >>
  /\ entries = << >>
  /\ cancelled = {}
  /\ lastOp = "mount"
  /\ InitStorage
  /\ InitCalls
  /\ InitSessionStore
  /\ InitPage
  /\ InitVnc

NextClassify ==
  \/ \E chat \in ChatInputs : OnError(chat.messages, chat.input)
  \/ Cancel

SpecClassify ==
  InitClassify
    /\ [][NextClassify /\ UNCHANGED <<eventVars, storageVars, callVars, sessionVars,
                  payloadVars, pageVars,
                  vncVars>>]_vars

\* ------------------------------------------------------ Persistence Adapter
SESSION_STORAGE_VERSION == "1.0.0"

generateSessionName(index) == "Session " \o ToString(index + 1)

\* SessionStorage.maxSessions
maxSessions == 50

\* saveSessions: the sessions whose events survive the reduced write
RecentWithEvents == 5

\* sessions.slice(-n)
SliceLast(sessions, n) ==
  IF Len(sessions) <= n THEN sessions
  ELSE SubSeq(sessions, Len(sessions) - n + 1, Len(sessions))

\* mutant: the ceiling keeps the front of the list, sessions.slice(0, n)
limitedSessions_KeepFront(sessions) ==
  IF Len(sessions) <= maxSessions THEN sessions
  ELSE SubSeq(sessions, 1, maxSessions)

limitedSessions(sessions) == SliceLast(sessions, maxSessions)

recentSessions(sessions) == SliceLast(sessions, maxSessions \div 2)

\* mutant: the reduced write strips the events of every session
optimizedSessions_StripAll(recent) ==
  [i \in 1..Len(recent) |-> [recent[i] EXCEPT !.events = << >>]]

\* index is 0-based in the code: index < recentSessions.length - 5
optimizedSessions(recent) ==
  [i \in 1..Len(recent) |->
     IF i - 1 < Len(recent) - RecentWithEvents
       THEN [recent[i] EXCEPT !.events = << >>]
       ELSE recent[i]]

\* JSON text of an object: its members in key order, as <<key, value>>;
\* a member whose value is undefined is left out
SessionKeys ==
  <<"id", "name", "createdAt", "updatedAt", "messages", "events",
    "eventIds", "sandboxId", "version">>

EventKeys ==
  <<"id", "timestamp", "type", "toolType", "payload", "status",
    "duration", "result", "error">>

OptionalEventKeys == {"duration", "result", "error"}

IsDefinedMember(object, key) ==
  /\ key \in DOMAIN object
  /\ key \in OptionalEventKeys => object[key] # Undefined

Members(object, keys) ==
  LET present == SelectSeq(keys, LAMBDA k : IsDefinedMember(object, k))
  IN [j \in 1..Len(present) |-> <<present[j], object[present[j]]>>]

StringifyEvents(events) ==
  [j \in 1..Len(events) |-> Members(events[j], EventKeys)]

StringifySession(session) ==
  Members([session EXCEPT !.events = StringifyEvents(session.events)],
          SessionKeys)

\* JSON.stringify(sessions)
Stringify(sessions) ==
  [i \in 1..Len(sessions) |-> StringifySession(sessions[i])]

\* JSON.parse of an object text: a missing member reads as undefined,
\* that is, the key is not in the DOMAIN
ParseObject(members) ==
  [key \in {members[j][1] : j \in 1..Len(members)} |->
     members[CHOOSE j \in 1..Len(members) : members[j][1] = key][2]]

ParseSession(members) ==
  LET object == ParseObject(members)
  IN IF "events" \in DOMAIN object
       THEN [object EXCEPT
               !.events = [j \in 1..Len(object.events) |->
                             ParseObject(object.events[j])]]
       ELSE object

\* JSON.parse(data)
Parse(text) == [i \in 1..Len(text) |-> ParseSession(text[i])]

\* length of a JSON text, one unit per member and per array element
RECURSIVE SumSeq(_)
SumSeq(numbers) ==
  IF numbers = << >> THEN 0 ELSE Head(numbers) + SumSeq(Tail(numbers))

SizeOfMember(member) ==
  IF member[1] \in {"messages", "eventIds"} THEN 1 + Len(member[2])
  ELSE IF member[1] = "events"
    THEN 1 + SumSeq([j \in 1..Len(member[2]) |-> 1 + Len(member[2][j])])
  ELSE 1

SizeOfSession(members) ==
  SumSeq([j \in 1..Len(members) |-> SizeOfMember(members[j])])

SizeOf(text) == SumSeq([i \in 1..Len(text) |-> 1 + SizeOfSession(text[i])])

\* the value of the probe item '__localStorage_test__'
ProbeItemSize == 1

Used(item) == IF item = Undefined THEN 0 ELSE SizeOf(item[1])

\* localStorage.setItem(key, value) of a medium of quota cap throws
\* QuotaExceededError when the value does not fit
Fits(text, cap) == SizeOf(text) <= cap

\* mutant: the probe is trusted where there is no window
isAvailable_IgnoresWindow(item, cap, win) ==
  Used(item) + ProbeItemSize <= cap

\* lines 26-36: the probe item is written next to what is stored
isAvailable(item, cap, win) ==
  win /\ Used(item) + ProbeItemSize <= cap

Has(object, key) == key \in DOMAIN object

\* mutant: the migration starts the record over with no messages
migrateSession_ResetsMessages(session, clock) ==
  [id |-> IF Has(session, "id") /\ session.id # ""
            THEN session.id ELSE "random-uuid",
   name |-> IF Has(session, "name") /\ session.name # ""
              THEN session.name ELSE generateSessionName(0),
   createdAt |-> IF Has(session, "createdAt") /\ session.createdAt # 0
                   THEN session.createdAt ELSE clock,
   updatedAt |-> IF Has(session, "updatedAt") /\ session.updatedAt # 0
                   THEN session.updatedAt ELSE clock,
   messages |-> << >>,
   events |-> IF Has(session, "events") THEN session.events ELSE << >>,
   eventIds |-> IF Has(session, "eventIds") THEN session.eventIds ELSE << >>,
   sandboxId |-> IF Has(session, "sandboxId") /\ session.sandboxId # ""
                   THEN session.sandboxId ELSE Null,
   version |-> SESSION_STORAGE_VERSION]

\* lines 175-188: `value || default`, by the type of each field
migrateSession(session, clock) ==
  [id |-> IF Has(session, "id") /\ session.id # ""
            THEN session.id ELSE "random-uuid",
   name |-> IF Has(session, "name") /\ session.name # ""
              THEN session.name ELSE generateSessionName(0),
   createdAt |-> IF Has(session, "createdAt") /\ session.createdAt # 0
                   THEN session.createdAt ELSE clock,
   updatedAt |-> IF Has(session, "updatedAt") /\ session.updatedAt # 0
                   THEN session.updatedAt ELSE clock,
   messages |-> IF Has(session, "messages") THEN session.messages ELSE << >>,
   events |-> IF Has(session, "events") THEN session.events ELSE << >>,
   eventIds |-> IF Has(session, "eventIds") THEN session.eventIds ELSE << >>,
   sandboxId |-> IF Has(session, "sandboxId") /\ session.sandboxId # ""
                   THEN session.sandboxId ELSE Null,
   version |-> SESSION_STORAGE_VERSION]

\* lines 41-66
loadSessions(item, cap, win, clock) ==
  IF ~isAvailable(item, cap, win) THEN << >>
  ELSE IF item = Undefined THEN << >>
  ELSE LET parsed == Parse(item[1])
       IN [i \in 1..Len(parsed) |->
             IF \/ ~Has(parsed[i], "version")
                \/ parsed[i].version # SESSION_STORAGE_VERSION
               THEN migrateSession(parsed[i], clock)
               ELSE parsed[i]]

\* mutant: both notifications swapped
QuotaEvent_Swapped(reducedWritten) ==
  IF reducedWritten THEN "storage-quota-error" ELSE "storage-quota-warning"

\* lines 103 and 113: the CustomEvent dispatched on the window
QuotaEvent(reducedWritten) ==
  IF reducedWritten THEN "storage-quota-warning" ELSE "storage-quota-error"

\* lines 71-125: what one run of saveSessions does to the stored item, with
\* the setItem calls it made, in order, and the events it dispatched
saveSessions(item, cap, win, sessions) ==
  IF ~isAvailable(item, cap, win)
    THEN [item |-> item, supplied |-> sessions, writes |-> << >>,
          cleared |-> FALSE, dispatched |-> << >>]
  ELSE LET first == Stringify(limitedSessions(sessions))
           second == Stringify(optimizedSessions(recentSessions(sessions)))
       IN IF Fits(first, cap)
            THEN [item |-> Some(first), supplied |-> sessions,
                  writes |-> <<[text |-> first, ok |-> TRUE]>>,
                  cleared |-> FALSE, dispatched |-> << >>]
          ELSE IF Fits(second, cap)
            THEN [item |-> Some(second), supplied |-> sessions,
                  writes |-> <<[text |-> first, ok |-> FALSE],
                               [text |-> second, ok |-> TRUE]>>,
                  cleared |-> FALSE, dispatched |-> <<QuotaEvent(TRUE)>>]
          ELSE [item |-> Undefined, supplied |-> sessions,
                writes |-> <<[text |-> first, ok |-> FALSE],
                             [text |-> second, ok |-> FALSE]>>,
                cleared |-> TRUE, dispatched |-> <<QuotaEvent(FALSE)>>]

\* sessions.findIndex((s) => s.id === id), 0 for -1
FindIndex(sessions, id) ==
  IF \E i \in 1..Len(sessions) : sessions[i].id = id
    THEN CHOOSE i \in 1..Len(sessions) :
           /\ sessions[i].id = id
           /\ \A j \in 1..(i - 1) : sessions[j].id # id
    ELSE 0

\* lines 130-141
saveSession(item, cap, win, session, clock) ==
  LET sessions == loadSessions(item, cap, win, clock)
      index == FindIndex(sessions, session.id)
      touched == [session EXCEPT !.updatedAt = clock]
  IN saveSessions(item, cap, win,
                  IF index > 0 THEN [sessions EXCEPT ![index] = touched]
                  ELSE Append(sessions, touched))

\* lines 146-150
deleteSession(item, cap, win, sessionId, clock) ==
  saveSessions(item, cap, win,
               SelectSeq(loadSessions(item, cap, win, clock),
                         LAMBDA s : s.id # sessionId))

\* lines 155-158: sessions.find((s) => s.id === sessionId) || null
getSession(item, cap, win, sessionId, clock) ==
  LET sessions == loadSessions(item, cap, win, clock)
      index == FindIndex(sessions, sessionId)
  IN IF index > 0 THEN Some(sessions[index]) ELSE Undefined

\* ------------------------------------------- Persistence Adapter, driven
SessionId(i) == "s" \o ToString(i)

CompleteEvent(id) ==
  Spread(MkEvent(id, "computer", "screenshot", 1),
         ResultUpdates(ResultString("ok"), Some(1), 2))

\* the i-th of n sessions; `recent` tells which end of the list was
\* updated last
MkSession(i, n, shape) ==
  [id |-> SessionId(i),
   name |-> generateSessionName(i - 1),
   createdAt |-> i,
   updatedAt |-> IF shape.recent = "back" THEN i ELSE n + 1 - i,
   messages |-> <<UserMessage(SessionId(i))>>,
   events |-> IF shape.events = 0 THEN << >>
              ELSE IF shape.events = 1 THEN <<CompleteEvent("t1")>>
              ELSE <<CompleteEvent("t1"), MkEvent("t2", "bash", "ls", 1)>>,
   eventIds |-> IF shape.events = 0 THEN << >>
                ELSE IF shape.events = 1 THEN <<"t1">> ELSE <<"t1", "t2">>,
   sandboxId |-> IF shape.events = 0 THEN Null ELSE "sbx",
   version |-> shape.version]

MkList(n, shape) == [i \in 1..n |-> MkSession(i, n, shape)]

PlainShape ==
  [events |-> 1, recent |-> "back", version |-> SESSION_STORAGE_VERSION]

Shapes ==
  {PlainShape,
   [events |-> 1, recent |-> "front", version |-> SESSION_STORAGE_VERSION],
   [events |-> 0, recent |-> "back", version |-> "0.9.0"]}

\* list lengths around the ceiling, its half and the recent few
SuppliedLengths ==
  {n \in 0..MaxSupplied :
     \/ n <= 1
     \/ n = RecentWithEvents + 1
     \/ n \in (maxSessions \div 2)..(maxSessions \div 2 + 1)
     \/ n >= maxSessions}

SuppliedLists == {MkList(n, shape) : n \in SuppliedLengths, shape \in Shapes}

SuppliedSessions ==
  {MkSession(1, 1, [PlainShape EXCEPT !.events = 2]),
   MkSession(MaxSupplied + 1, 1, PlainShape)}

\* a record written before the schema had events or a version, and one of
\* an older version that has little more than its id
LegacyItem ==
  << << <<"id", "s1">>, <<"name", "Old">>, <<"createdAt", 1>>,
        <<"updatedAt", 1>>, <<"messages", <<UserMessage("s1")>> >>,
        <<"eventIds", <<"t1">> >>, <<"sandboxId", Null>> >>,
     << <<"id", "s0">>, <<"updatedAt", 2>>, <<"version", "0.9.0">> >> >>

\* quotas at which a small list, a reduced list or a full list just fits,
\* with and without room for the probe item
Capacities ==
  {0}
    \cup {SizeOf(Stringify(sessions)) + room :
            sessions \in {MkList(2, PlainShape),
                          optimizedSessions(
                            recentSessions(MkList(maxSessions, PlainShape))),
                          MkList(maxSessions, PlainShape)},
            room \in {0, ProbeItemSize}}

InitPersist ==
  /\ InitEvents
  /\ InitRetry
  /\ InitCalls
  /\ InitSessionStore
  /\ InitPage
  /\ InitVnc
  /\ capacity \in Capacities
  /\ windowDefined \in BOOLEAN
  /\ storage \in {item \in {Undefined, Some(LegacyItem)} :
                    Used(item) <= capacity}
  /\ lastSave = Undefined
  /\ loaded = Undefined
  /\ found = Undefined

Saved(run, call) ==
  /\ storage' = run.item
  /\ lastSave' = Some([call |-> call, supplied |-> run.supplied,
                       writes |-> run.writes, cleared |-> run.cleared,
                       dispatched |-> run.dispatched])
  /\ loaded' = Undefined
  /\ found' = Undefined
  /\ UNCHANGED <<capacity, windowDefined>>

SaveSessions(sessions) ==
  Saved(saveSessions(storage, capacity, windowDefined, sessions),
        "saveSessions")

SaveSession(session) ==
  Saved(saveSession(storage, capacity, windowDefined, session, now),
        "saveSession")

DeleteSession(sessionId) ==
  Saved(deleteSession(storage, capacity, windowDefined, sessionId, now),
        "deleteSession")

\* lines 163-170
ClearSessions ==
  /\ storage' = IF isAvailable(storage, capacity, windowDefined)
                  THEN Undefined ELSE storage
  /\ lastSave' = Undefined
  /\ loaded' = Undefined
  /\ found' = Undefined
  /\ UNCHANGED <<capacity, windowDefined>>

LoadSessions ==
  /\ loaded' = Some(loadSessions(storage, capacity, windowDefined, now))
  /\ found' = Undefined
  /\ UNCHANGED <<storage, capacity, windowDefined, lastSave>>

\* the caller keeps the session, Some(session), or null, Undefined
GetSession(sessionId) ==
  /\ found' = Some(getSession(storage, capacity, windowDefined, sessionId,
                               now))
  /\ loaded' = Undefined
  /\ UNCHANGED <<storage, capacity, windowDefined, lastSave>>

NextPersist ==
  \/ \E sessions \in SuppliedLists : SaveSessions(sessions)
  \/ \E session \in SuppliedSessions : SaveSession(session)
  \/ DeleteSession(SessionId(1))
  \/ ClearSessions
  \/ LoadSessions
  \/ GetSession(SessionId(1))

SpecPersist ==
  InitPersist
    /\ [][NextPersist /\ UNCHANGED <<eventVars, retryVars, callVars, sessionVars,
                  payloadVars, pageVars,
                  vncVars>>]_vars

\* ------------------------------------------------------------ Session Store
\* messages.ts lines 212-227: createSession(id, name, sandboxId)
createSession(id, name, sandboxId, clock) ==
  [id |-> id, name |-> name, createdAt |-> clock, updatedAt |-> clock,
   messageIds |-> << >>, eventIds |-> << >>, sandboxId |-> sandboxId]

sessionToStored(session, messages, events) ==
  [id |-> session.id, name |-> session.name,
   createdAt |-> session.createdAt, updatedAt |-> session.updatedAt,
   messages |-> messages, events |-> events,
   eventIds |-> session.eventIds, sandboxId |-> session.sandboxId,
   version |-> SESSION_STORAGE_VERSION]

storedToSession(stored) ==
  [id |-> stored.id, name |-> stored.name,
   createdAt |-> stored.createdAt, updatedAt |-> stored.updatedAt,
   messageIds |-> [i \in 1..Len(stored.messages) |-> stored.messages[i].id],
   eventIds |-> stored.eventIds, sandboxId |-> stored.sandboxId]

\* /\s/ as far as the texts of the model go
IsSpace(c) == c \in {" ", "\n", "\t"}

RECURSIVE TrimStart(_)
TrimStart(text) ==
  IF text = "" THEN ""
  ELSE IF IsSpace(SubSeq(text, 1, 1))
    THEN TrimStart(SubSeq(text, 2, Len(text)))
  ELSE text

RECURSIVE TrimEnd(_)
TrimEnd(text) ==
  IF text = "" THEN ""
  ELSE IF IsSpace(SubSeq(text, Len(text), Len(text)))
    THEN TrimEnd(SubSeq(text, 1, Len(text) - 1))
  ELSE text

\* String.prototype.trim
Trim(text) == TrimEnd(TrimStart(text))

\* text.replace(/\s+/g, ' ')
RECURSIVE CollapseWhitespace(_)
CollapseWhitespace(text) ==
  IF text = "" THEN ""
  ELSE IF IsSpace(SubSeq(text, 1, 1))
    THEN " " \o CollapseWhitespace(TrimStart(SubSeq(text, 2, Len(text))))
  ELSE SubSeq(text, 1, 1) \o CollapseWhitespace(SubSeq(text, 2, Len(text)))

\* the longest derived name
NameLength == 30

\* mutant: the text is cut as it was typed, whitespace runs included
generateSessionNameFromMessages_NotCollapsed(messages) ==
  LET users == SelectSeq(messages, LAMBDA m : m.role = "user")
  IN IF users = << >> THEN Null
     ELSE
       LET first == users[1]
           textParts == SelectSeq(first.parts, LAMBDA part : part.type = "text")
           partText == IF textParts = << >> THEN ""
                       ELSE Trim(textParts[1].text)
           text == IF partText # "" THEN partText
                   ELSE IF Trim(first.content) # "" THEN first.content
                   ELSE ""
           cleaned == Trim(text)
           truncated == IF Len(cleaned) > NameLength
                          THEN Trim(SubSeq(cleaned, 1, NameLength))
                          ELSE cleaned
       IN IF text = "" \/ truncated = "" THEN Null ELSE truncated

\* messages.ts lines 148-206; content is a string in every message of the
\* model, so the branch for a content array is never taken
generateSessionNameFromMessages(messages) ==
  LET users == SelectSeq(messages, LAMBDA m : m.role = "user")
  IN IF users = << >> THEN Null
     ELSE
       LET first == users[1]
           textParts == SelectSeq(first.parts, LAMBDA part : part.type = "text")
           partText == IF textParts = << >> THEN ""
                       ELSE Trim(textParts[1].text)
           text == IF partText # "" THEN partText
                   ELSE IF Trim(first.content) # "" THEN first.content
                   ELSE ""
           cleaned == Trim(CollapseWhitespace(text))
           truncated == IF Len(cleaned) > NameLength
                          THEN Trim(SubSeq(cleaned, 1, NameLength))
                          ELSE cleaned
       IN IF text = "" \/ truncated = "" THEN Null ELSE truncated

\* session-store.tsx lines 54-59
ReduceLoadSessions(state, sessions) ==
  [state EXCEPT !.sessions = sessions, !.isLoading = FALSE]

\* mutant: a created session is appended without becoming the active one
ReduceCreateSession_KeepsActive(state, session) ==
  [state EXCEPT !.sessions = Append(state.sessions, session)]

\* lines 61-66
ReduceCreateSession(state, session) ==
  [state EXCEPT !.sessions = Append(state.sessions, session),
                !.activeSessionId = session.id]

\* lines 68-74
ReduceUpdateSession(state, session) ==
  [state EXCEPT !.sessions =
     [i \in 1..Len(state.sessions) |->
        IF state.sessions[i].id = session.id THEN session
        ELSE state.sessions[i]]]

\* mutant: the last remaining session becomes the active one
ReduceDeleteSession_ActivatesLast(state, sessionId) ==
  LET filtered == SelectSeq(state.sessions, LAMBDA s : s.id # sessionId)
  IN [state EXCEPT
        !.sessions = filtered,
        !.activeSessionId =
          IF state.activeSessionId = sessionId
            THEN IF filtered # << >> THEN filtered[Len(filtered)].id ELSE Null
            ELSE state.activeSessionId]

\* lines 76-85: filtered[0]?.id || null
ReduceDeleteSession(state, sessionId) ==
  LET filtered == SelectSeq(state.sessions, LAMBDA s : s.id # sessionId)
  IN [state EXCEPT
        !.sessions = filtered,
        !.activeSessionId =
          IF state.activeSessionId = sessionId
            THEN IF filtered # << >> /\ filtered[1].id # ""
                   THEN filtered[1].id ELSE Null
            ELSE state.activeSessionId]

\* lines 87-91
ReduceSetActiveSession(state, sessionId) ==
  [state EXCEPT !.activeSessionId = sessionId]

\* mutant: deleting a session leaves the active id as it is
sessionStoreReducer_DeleteKeepsActive(state, action) ==
  CASE action.type = "LOAD_SESSIONS" ->
         ReduceLoadSessions(state, action.sessions)
    [] action.type = "CREATE_SESSION" ->
         ReduceCreateSession(state, action.session)
    [] action.type = "UPDATE_SESSION" ->
         ReduceUpdateSession(state, action.session)
    [] action.type = "DELETE_SESSION" ->
         [state EXCEPT !.sessions =
            SelectSeq(state.sessions, LAMBDA s : s.id # action.sessionId)]
    [] action.type = "SET_ACTIVE_SESSION" ->
         ReduceSetActiveSession(state, action.sessionId)
    [] OTHER -> state

\* lines 49-102
sessionStoreReducer(state, action) ==
  CASE action.type = "LOAD_SESSIONS" ->
         ReduceLoadSessions(state, action.sessions)
    [] action.type = "CREATE_SESSION" ->
         ReduceCreateSession(state, action.session)
    [] action.type = "UPDATE_SESSION" ->
         ReduceUpdateSession(state, action.session)
    [] action.type = "DELETE_SESSION" ->
         ReduceDeleteSession(state, action.sessionId)
    [] action.type = "SET_ACTIVE_SESSION" ->
         ReduceSetActiveSession(state, action.sessionId)
    [] OTHER -> state

\* crypto.randomUUID(): an id that was never handed out before
randomUUID(issued) == "u" \o ToString(issued + 1)

\* lines 138-165: the name a loaded session gets, by its place in the list
RegeneratedName(stored, index) ==
  LET nameFromMessages == generateSessionNameFromMessages(stored[index].messages)
  IN IF nameFromMessages # Null THEN nameFromMessages
     ELSE generateSessionName(index - 1)

NeedsName(stored, index) ==
  /\ stored[index].name = "New Session"
  /\ Len(stored[FindIndex(stored, stored[index].id)].messages) > 0

\* lines 168-171: sessionsToUpdate.forEach(saveSession), from position `from`
RECURSIVE SaveRenamed(_, _, _, _, _, _)
SaveRenamed(item, cap, win, stored, from, clock) ==
  IF from > Len(stored) THEN item
  ELSE IF NeedsName(stored, from)
    THEN LET first == stored[FindIndex(stored, stored[from].id)]
             renamed == [first EXCEPT !.name = RegeneratedName(stored, from)]
         IN SaveRenamed(saveSession(item, cap, win, renamed, clock).item,
                        cap, win, stored, from + 1, clock)
  ELSE SaveRenamed(item, cap, win, stored, from + 1, clock)

SessionCalled(op, arg, result) ==
  sessionCall' = Some([op |-> op, arg |-> arg, result |-> result,
                       before |-> sessionStore, storedBefore |-> storage])

\* lines 131-180: the effect run once when the provider mounts; the state it
\* closes over is the initial one
MountEffect ==
  LET stored == loadSessions(storage, capacity, windowDefined, now)
      sessions == [i \in 1..Len(stored) |->
                     IF NeedsName(stored, i)
                       THEN [storedToSession(stored[i]) EXCEPT
                               !.name = RegeneratedName(stored, i)]
                       ELSE storedToSession(stored[i])]
      listed == sessionStoreReducer(sessionStore,
                  [type |-> "LOAD_SESSIONS", sessions |-> sessions])
  IN /\ sessionStore' =
          IF Len(sessions) > 0 /\ sessionInitialState.activeSessionId = Null
            THEN sessionStoreReducer(listed,
                   [type |-> "SET_ACTIVE_SESSION", sessionId |-> sessions[1].id])
            ELSE listed
     /\ storage' = SaveRenamed(storage, capacity, windowDefined, stored, 1, now)
     /\ SessionCalled("mount", Null, Null)
     /\ UNCHANGED <<uuids, capacity, windowDefined, lastSave, loaded, found>>
     /\ UNCHANGED eventVars

\* lines 182-199
StoreCreateSession(name, sandboxId) ==
  LET id == randomUUID(uuids)
      sessionName == IF name # Undefined /\ name # Some("")
                       THEN name[1] ELSE "New Session"
      session == createSession(id, sessionName, sandboxId, now)
  IN /\ uuids' = uuids + 1
     /\ sessionStore' = sessionStoreReducer(sessionStore,
                          [type |-> "CREATE_SESSION", session |-> session])
     /\ Saved(saveSession(storage, capacity, windowDefined,
                          sessionToStored(session, << >>, << >>), now),
              "createSession")
     /\ SessionCalled("createSession", name, session)
     /\ UNCHANGED eventVars

\* lines 220-223
StoreDeleteSession(sessionId) ==
  /\ sessionStore' = sessionStoreReducer(sessionStore,
                       [type |-> "DELETE_SESSION", sessionId |-> sessionId])
  /\ Saved(deleteSession(storage, capacity, windowDefined, sessionId, now),
           "deleteSession")
  /\ SessionCalled("deleteSession", sessionId, Null)
  /\ UNCHANGED <<uuids, eventVars>>

\* lines 225-227
StoreSetActiveSession(sessionId) ==
  /\ sessionStore' = sessionStoreReducer(sessionStore,
                       [type |-> "SET_ACTIVE_SESSION", sessionId |-> sessionId])
  /\ SessionCalled("setActiveSession", sessionId, Null)
  /\ UNCHANGED <<uuids, storageVars, eventVars>>

\* ----------------------------------------------------- Session Store, driven
\* how many sessions are created in one run
MaxUuids == 2

IndexIds == {sessionStore.sessions[i].id : i \in 1..Len(sessionStore.sessions)}

\* what an earlier visit left in storage: a session still called New Session
\* that has a first message, and a named one without messages
StoredBefore ==
  <<sessionToStored(createSession("s1", "New Session", Null, 1),
      <<[id |-> "m1", role |-> "user", content |-> " hi  there\n",
         parts |-> <<TextPart(" hi  there\n")>>]>>, << >>),
    sessionToStored(createSession("s2", "Work", "sbx", 1), << >>, << >>)>>

NewRecord == sessionToStored(createSession("u1", "New Session", Null, 1),
                             << >>, << >>)

\* no room at all, room for the earlier sessions only, room for every session
SessionCapacities ==
  {0,
   SizeOf(Stringify(StoredBefore)) + ProbeItemSize,
   SizeOf(Stringify(StoredBefore))
     + (MaxUuids + 1) * (SizeOf(Stringify(<<NewRecord>>)) + ProbeItemSize)}

InitSessions ==
  /\ InitEvents
  /\ InitRetry
  /\ InitCalls
  /\ InitSessionStore
  /\ InitPage
  /\ InitVnc
  /\ capacity \in SessionCapacities
  /\ windowDefined \in BOOLEAN
  /\ storage \in {item \in {Undefined, Some(Stringify(StoredBefore))} :
                    Used(item) <= capacity}
  /\ lastSave = Undefined
  /\ loaded = Undefined
  /\ found = Undefined

\* createSession() of the sidebar, createSession(undefined, null) of the
\* session loader, and a call that names the session and binds a sandbox
CreateInputs ==
  {[name |-> Undefined, sandboxId |-> Null],
   [name |-> Some(""), sandboxId |-> Null],
   [name |-> Some("Work"), sandboxId |-> "sbx"]}

\* the sidebar and the session loader call the store once it has loaded, and
\* with the ids of sessions they list
NextSessions ==
  \/ sessionStore.isLoading /\ MountEffect
  \/ /\ ~sessionStore.isLoading
     /\ uuids < MaxUuids
     /\ \E input \in CreateInputs :
          StoreCreateSession(input.name, input.sandboxId)
  \/ /\ ~sessionStore.isLoading
     /\ \E sessionId \in IndexIds : StoreDeleteSession(sessionId)
  \/ /\ ~sessionStore.isLoading
     /\ \E sessionId \in IndexIds : StoreSetActiveSession(sessionId)
  \/ ClockAdvance /\ UNCHANGED <<sessionVars, storageVars>>

SpecSessions ==
  InitSessions
    /\ [][NextSessions /\ UNCHANGED <<retryVars, callVars, payloadVars, pageVars,
                  vncVars>>]_vars

\* -------------------------------------------- Session Store, payload calls
\* session-store.tsx lines 312-324
loadSessionData(item, cap, win, sessionId, clock) ==
  LET stored == getSession(item, cap, win, sessionId, clock)
  IN IF stored = Undefined THEN Undefined
     ELSE Some([messages |-> stored[1].messages,
                events |-> stored[1].events,
                eventIds |-> stored[1].eventIds])

\* mutant: the record is rebuilt from the session alone
UpdatedRecord_DropsPayload(item, cap, win, session, clock) ==
  [sessionToStored(session, << >>, << >>) EXCEPT !.updatedAt = clock]

\* lines 205-217: the record updateSession hands to saveSession
UpdatedRecord(item, cap, win, session, clock) ==
  LET stored == getSession(item, cap, win, session.id, clock)
  IN IF stored # Undefined
       THEN [sessionToStored(session, stored[1].messages, stored[1].events)
               EXCEPT !.updatedAt = clock]
       ELSE [sessionToStored(session, << >>, << >>) EXCEPT !.updatedAt = clock]

\* lines 201-218
StoreUpdateSession(session) ==
  /\ sessionStore' = sessionStoreReducer(sessionStore,
                       [type |-> "UPDATE_SESSION", session |-> session])
  /\ Saved(saveSession(storage, capacity, windowDefined,
                       UpdatedRecord(storage, capacity, windowDefined,
                                     session, now),
                       now),
           "updateSession")
  /\ SessionCalled("updateSession", session.id, session)
  /\ UNCHANGED <<uuids, eventVars>>

\* mutant: the fallback numbers sessions from zero
FallbackName_FromZero(sessions, sessionId) ==
  generateSessionName(FindIndex(sessions, sessionId) - 1 - 1)

\* lines 255-257: findIndex is 0-based, generateSessionName adds one
FallbackName(sessions, sessionId) ==
  generateSessionName(IF FindIndex(sessions, sessionId) > 0
                        THEN FindIndex(sessions, sessionId) - 1
                        ELSE Len(sessions))

\* lines 242-260: the name saveSessionMessages gives the session
SessionNameFor(sessions, session, messages) ==
  IF Len(messages) = 0 THEN session.name
  ELSE IF generateSessionNameFromMessages(messages) # Null
    THEN generateSessionNameFromMessages(messages)
  ELSE IF session.name = "New Session"
    THEN FallbackName(sessions, session.id)
  ELSE session.name

MessageIds(messages) == [i \in 1..Len(messages) |-> messages[i].id]

EventIds(events) == [i \in 1..Len(events) |-> events[i].id]

\* lines 234-285; `sessions` is state.sessions as the callback closed over it
StoreSaveSessionMessages(sessions, sessionId, messages) ==
  IF FindIndex(sessions, sessionId) = 0
    THEN /\ SessionCalled("saveSessionMessages", sessionId, messages)
         /\ UNCHANGED <<sessionStore, uuids, storageVars, eventVars>>
  ELSE
    LET session == sessions[FindIndex(sessions, sessionId)]
        updated == [session EXCEPT
                      !.name = SessionNameFor(sessions, session, messages),
                      !.messageIds = MessageIds(messages),
                      !.updatedAt = now]
        stored == getSession(storage, capacity, windowDefined, sessionId, now)
        events == IF stored # Undefined THEN stored[1].events ELSE << >>
    IN /\ sessionStore' = sessionStoreReducer(sessionStore,
                            [type |-> "UPDATE_SESSION", session |-> updated])
       /\ Saved(saveSession(storage, capacity, windowDefined,
                            sessionToStored(updated, messages, events), now),
                "saveSessionMessages")
       /\ SessionCalled("saveSessionMessages", sessionId, messages)
       /\ UNCHANGED <<uuids, eventVars>>

\* lines 287-310
StoreSaveSessionEvents(sessions, sessionId, events) ==
  IF FindIndex(sessions, sessionId) = 0
    THEN /\ SessionCalled("saveSessionEvents", sessionId, events)
         /\ UNCHANGED <<sessionStore, uuids, storageVars, eventVars>>
  ELSE
    LET session == sessions[FindIndex(sessions, sessionId)]
        updated == [session EXCEPT !.eventIds = EventIds(events),
                                   !.updatedAt = now]
        stored == getSession(storage, capacity, windowDefined, sessionId, now)
    IN /\ sessionStore' = sessionStoreReducer(sessionStore,
                            [type |-> "UPDATE_SESSION", session |-> updated])
       /\ IF stored # Undefined
            THEN Saved(saveSession(storage, capacity, windowDefined,
                         sessionToStored(updated, stored[1].messages, events),
                         now),
                       "saveSessionEvents")
            ELSE UNCHANGED storageVars
       /\ SessionCalled("saveSessionEvents", sessionId, events)
       /\ UNCHANGED <<uuids, eventVars>>

\* lines 229-232
getActiveSession(state) ==
  IF state.activeSessionId = Null
       \/ FindIndex(state.sessions, state.activeSessionId) = 0
    THEN Undefined
    ELSE Some(state.sessions[FindIndex(state.sessions, state.activeSessionId)])

\* use-vnc.ts lines 42-47: initialize() up to the await; the session it works
\* on is the one it read before waiting
InitializeStart ==
  /\ initializing = Undefined
  /\ getActiveSession(sessionStore) # Undefined
  /\ initializing' = getActiveSession(sessionStore)
  /\ UNCHANGED <<deleted, sessionVars, storageVars, eventVars>>

\* lines 54-65 and 80-84: getDesktopURL resolved with sandbox `id`
InitializeFinish(id) ==
  /\ initializing # Undefined
  /\ initializing' = Undefined
  /\ UNCHANGED deleted
  /\ IF initializing[1].sandboxId # id
       THEN StoreUpdateSession([initializing[1] EXCEPT !.sandboxId = id])
       ELSE UNCHANGED <<sessionVars, storageVars, eventVars>>

\* ----------------------------------------------- Session Store with payload
SandboxIds == {"sbx"}

\* a first user turn, and a list that holds no user turn
MessageLists ==
  {<<UserMessage("m1")>>, <<AssistantMessage("m1", << >>)>>}

EventLists == {<<MkEvent("t1", "computer", "screenshot", 1)>>}

\* what an earlier visit left in storage: the named session, and a session
\* created after it that has no message yet
EarlierItem ==
  Stringify(<<StoredBefore[2],
              sessionToStored(createSession("s3", "New Session", Null, 1),
                              << >>, << >>)>>)

\* room for the earlier sessions and one message more, and room for the
\* messages and events of both
PayloadCapacities ==
  {SizeOf(EarlierItem) + ProbeItemSize + 1,
   SizeOf(EarlierItem) + ProbeItemSize
     + 2 * (Len(SessionKeys) + Len(EventKeys))}

InitPayload ==
  /\ InitEvents
  /\ InitRetry
  /\ InitCalls
  /\ InitSessionStore
  /\ InitPage
  /\ InitVnc
  /\ capacity \in PayloadCapacities
  /\ windowDefined = TRUE
  /\ storage \in {Undefined, Some(EarlierItem)}
  /\ lastSave = Undefined
  /\ loaded = Undefined
  /\ found = Undefined

NextPayload ==
  \/ sessionStore.isLoading /\ MountEffect /\ UNCHANGED payloadVars
  \/ /\ ~sessionStore.isLoading
     /\ \E sessionId \in IndexIds :
          /\ StoreDeleteSession(sessionId)
          /\ deleted' = deleted \cup {sessionId}
     /\ UNCHANGED initializing
  \/ /\ ~sessionStore.isLoading
     /\ \E sessionId \in IndexIds, messages \in MessageLists :
          StoreSaveSessionMessages(sessionStore.sessions, sessionId, messages)
     /\ UNCHANGED payloadVars
  \/ /\ ~sessionStore.isLoading
     /\ \E sessionId \in IndexIds, events \in EventLists :
          StoreSaveSessionEvents(sessionStore.sessions, sessionId, events)
     /\ UNCHANGED payloadVars
  \/ ~sessionStore.isLoading /\ InitializeStart
  \/ \E id \in SandboxIds : InitializeFinish(id)

SpecPayload ==
  InitPayload
    /\ [][NextPayload /\ UNCHANGED <<retryVars, callVars, pageVars,
                  vncVars>>]_vars

\* ------------------------------------------------- session names, derived
\* longest message list handed to generateSessionNameFromMessages
MaxMessages == 2

\* no text, blank text, short text, whitespace at both ends and in runs, a
\* text of NameLength characters, a longer one with a space where it is cut,
\* a longer one without, and a long one that is short once collapsed
NameTexts ==
  {"", " \n", "hi", " hi  there\n",
   "abcdefghijklmnopqrstuvwxyz0123",
   "abcdefghijklmnopqrstuvwxyz012 456",
   "thinking about it for a really long 40+ character message",
   "a                \t               \n b"}

\* a user message of useChat (text part and content), one of the older
\* format (content only), one whose text part is blank, and an agent turn
NameMessages ==
  {[id |-> "m", role |-> "user", content |-> text,
    parts |-> <<TextPart(text)>>] : text \in NameTexts}
    \cup {[id |-> "m", role |-> "user", content |-> text, parts |-> << >>] :
            text \in NameTexts}
    \cup {[id |-> "m", role |-> "user", content |-> text,
           parts |-> <<TextPart(" ")>>] : text \in NameTexts}
    \cup {AssistantMessage("m", <<TextPart(text)>>) : text \in {"hi", "ok then"}}

InitNames ==
  /\ InitEvents
  /\ InitRetry
  /\ InitStorage
  /\ InitCalls
  /\ InitSessionStore
  /\ InitPage
  /\ InitVnc

DeriveName(messages) ==
  /\ SessionCalled("generateSessionNameFromMessages", messages,
                   generateSessionNameFromMessages(messages))
  /\ UNCHANGED <<sessionStore, uuids, payloadVars>>

\* the list the name was last derived from
NamedMessages == IF sessionCall = Undefined THEN << >> ELSE sessionCall[1].arg

\* the chat grows by one message and the name is derived from the new list
NextNames ==
  /\ Len(NamedMessages) < MaxMessages
  /\ \E message \in NameMessages : DeriveName(Append(NamedMessages, message))

SpecNames ==
  InitNames
    /\ [][NextNames /\ UNCHANGED <<eventVars, retryVars, storageVars, callVars,
                               pageVars,
                  vncVars>>]_vars

\* ------------------------------------------------------- the page, saving
\* session-store.tsx lines 234-285: the index and the stored item after
\* saveSessionMessages
SavedMessages(state, item, cap, win, sessionId, messages, clock) ==
  IF FindIndex(state.sessions, sessionId) = 0
    THEN [state |-> state, item |-> item]
  ELSE
    LET session == state.sessions[FindIndex(state.sessions, sessionId)]
        updated == [session EXCEPT
                      !.name = SessionNameFor(state.sessions, session, messages),
                      !.messageIds = MessageIds(messages),
                      !.updatedAt = clock]
        stored == getSession(item, cap, win, sessionId, clock)
        events == IF stored # Undefined THEN stored[1].events ELSE << >>
    IN [state |-> sessionStoreReducer(state,
                    [type |-> "UPDATE_SESSION", session |-> updated]),
        item |-> saveSession(item, cap, win,
                             sessionToStored(updated, messages, events),
                             clock).item]

\* session-store.tsx lines 287-310: the same after saveSessionEvents
SavedEvents(state, item, cap, win, sessionId, events, clock) ==
  IF FindIndex(state.sessions, sessionId) = 0
    THEN [state |-> state, item |-> item]
  ELSE
    LET session == state.sessions[FindIndex(state.sessions, sessionId)]
        updated == [session EXCEPT !.eventIds = EventIds(events),
                                   !.updatedAt = clock]
        stored == getSession(item, cap, win, sessionId, clock)
    IN [state |-> sessionStoreReducer(state,
                    [type |-> "UPDATE_SESSION", session |-> updated]),
        item |-> IF stored # Undefined
                   THEN saveSession(item, cap, win,
                          sessionToStored(updated, stored[1].messages, events),
                          clock).item
                   ELSE item]

\* part_013 lines 114-117: JSON.stringify({ length, ids: [{ id, role }] })
Signature(messages) ==
  <<Len(messages)>>
    \o [i \in 1..Len(messages) |-> <<messages[i].id, messages[i].role>>]

\* mutant: the timer keeps the list the burst began with
ArmedTimer_KeepsFirst(active, messages, lastSaved) ==
  IF active = Undefined \/ Len(messages) = 0 THEN Undefined
  ELSE IF Signature(messages) = lastSaved THEN Undefined
  ELSE Some([sessionId |-> active[1].id, messages |-> <<messages[1]>>,
             signature |-> Signature(messages)])

\* lines 110-144: the message effect runs again; its cleanup has cleared the
\* pending timer, and a new one is set when the signature is not the saved one
ArmedTimer(active, messages, lastSaved) ==
  IF active = Undefined \/ Len(messages) = 0 THEN Undefined
  ELSE IF Signature(messages) = lastSaved THEN Undefined
  ELSE Some([sessionId |-> active[1].id, messages |-> messages,
             signature |-> Signature(messages)])

\* lines 151-163: the event effect runs when the length of the log changed,
\* and saves when the ids are not those of the events saved last
EventsToSave(active, before, events, ref) ==
  /\ active # Undefined
  /\ Len(events) # Len(before)
  /\ EventIds(events) # EventIds(ref)
  /\ Len(events) > 0

\* what the effects of one render do, after `saved` (the index and the item
\* a callback of the same turn may have written)
RunEffects(saved, messages) ==
  LET active == getActiveSession(sessionStore)
      saves == EventsToSave(active, eventStore.events, eventStore'.events,
                            eventsRef)
      after == IF saves
                 THEN SavedEvents(saved.state, saved.item, capacity,
                                  windowDefined, active[1].id,
                                  eventStore'.events, now)
                 ELSE saved
  IN /\ sessionStore' = after.state
     /\ storage' = after.item
     /\ eventsRef' = IF saves THEN eventStore'.events ELSE eventsRef
     /\ saveTimeoutRef' = ArmedTimer(active, messages, lastSavedMessagesRef)
     /\ UNCHANGED <<lastSavedMessagesRef, uuids, sessionCall, capacity,
                    windowDefined, lastSave, loaded, found>>

\* useChat hands the page a new list of messages
ChatChange(messages, status) ==
  /\ chatMessages' = messages
  /\ streamStatus' = status
  /\ StreamChange(messages, status)
  /\ RunEffects([state |-> sessionStore, item |-> storage], messages)

\* handleSubmit: the user's turn is appended
Submit ==
  /\ streamStatus = "ready"
  /\ chatMessages = << >>
  /\ ChatChange(<<UserMessage("m1")>>, "submitted")

\* the parts of the agent's turn as the stream goes on: a part is appended,
\* or a tool call gets its result
Progress(old, new) ==
  /\ Len(new) \in {Len(old), Len(old) + 1}
  /\ \A i \in 1..Len(old) :
       \/ new[i] = old[i]
       \/ /\ old[i].type = "tool-invocation"
          /\ new[i].type = "tool-invocation"
          /\ old[i].toolInvocation.state = "call"
          /\ new[i].toolInvocation.state = "result"
          /\ new[i].toolInvocation.toolCallId = old[i].toolInvocation.toolCallId

Stream(parts) ==
  /\ streamStatus \in {"submitted", "streaming"}
  /\ IF Len(chatMessages) = 1 THEN Len(parts) <= 1
     ELSE /\ parts # chatMessages[2].parts
          /\ Progress(chatMessages[2].parts, parts)
  /\ ChatChange(<<chatMessages[1], AssistantMessage("m2", parts)>>,
                "streaming")

\* lines 90-96: the stream ends, onFinish saves the messages
Finish ==
  /\ streamStatus = "streaming"
  /\ streamStatus' = "ready"
  /\ UNCHANGED chatMessages
  /\ StreamChange(chatMessages, "ready")
  /\ LET active == getActiveSession(sessionStore)
     IN RunEffects(IF active # Undefined
                     THEN SavedMessages(sessionStore, storage, capacity,
                                        windowDefined, active[1].id,
                                        chatMessages, now)
                     ELSE [state |-> sessionStore, item |-> storage],
                   chatMessages)

\* lines 130-135: the save timer fires
SaveTimerFires ==
  /\ saveTimeoutRef # Undefined
  /\ LET timer == saveTimeoutRef[1]
         after == SavedMessages(sessionStore, storage, capacity,
                                windowDefined, timer.sessionId,
                                timer.messages, now)
     IN /\ sessionStore' = after.state
        /\ storage' = after.item
        /\ lastSavedMessagesRef' = timer.signature
        /\ saveTimeoutRef' = ArmedTimer(getActiveSession(sessionStore),
                                        chatMessages, timer.signature)
  /\ UNCHANGED <<chatMessages, streamStatus, eventsRef, eventVars, uuids,
                 sessionCall, capacity, windowDefined, lastSave, loaded, found>>

\* room for the stored sessions, the turns of one exchange and its events
PageCapacity ==
  SizeOf(EarlierItem) + ProbeItemSize
    + 2 + Cardinality(StreamToolCalls) * (Len(EventKeys) + 2)

InitPageDriven ==
  /\ InitEvents
  /\ InitRetry
  /\ InitCalls
  /\ InitSessionStore
  /\ InitPage
  /\ InitVnc
  /\ capacity = PageCapacity
  /\ windowDefined = TRUE
  /\ storage = Some(EarlierItem)
  /\ lastSave = Undefined
  /\ loaded = Undefined
  /\ found = Undefined

NextPage ==
  \/ sessionStore.isLoading /\ MountEffect /\ UNCHANGED pageVars
  \/ ~sessionStore.isLoading /\ Submit
  \/ \E parts \in SeqsUpTo(StreamParts, MaxParts) : Stream(parts)
  \/ Finish
  \/ SaveTimerFires

SpecPage ==
  InitPageDriven
    /\ [][NextPage /\ UNCHANGED <<retryVars, callVars, payloadVars,
                             vncVars>>]_vars

\* ------------------------------------------------- sandbox connect sequence
\* src/unnamed/part_002: getDesktop and getDesktopURL. An error message is the
\* sequence of the pieces it is concatenated from; `includes` looks into each
\* piece.

CreatedSandboxId == "fresh"

NotFoundSuffix == " not found or expired. Creating new sandbox."

\* the pieces of text in which String.prototype.includes finds `sub`
PiecesIncluding(sub) ==
  CASE sub = "not found" -> {"sandbox not found", NotFoundSuffix}
    [] sub = "404" -> {"404 page"}
    [] sub = "doesn't exist" -> {"sandbox doesn't exist"}
    [] sub = "timeout" -> {"request timeout"}
    [] sub = "Connect Timeout" -> {"Connect Timeout Error"}
    [] sub = "not running" -> {"Server is not running"}
    [] sub = "expired" -> {NotFoundSuffix}
    [] OTHER -> {}

Includes(message, sub) ==
  \E i \in 1..Len(message) : message[i] \in PiecesIncluding(sub)

SandboxError(name, statusCode, code, message) ==
  [name |-> name, statusCode |-> statusCode, code |-> code,
   message |-> message]

\* what Sandbox.connect can reject with
ConnectErrors ==
  {SandboxError("NotFoundError", 404, "", <<"gone">>),
   SandboxError("Error", 0, "", <<"sandbox doesn't exist">>),
   SandboxError("Error", 0, "", <<"connection reset">>)}

\* what Sandbox.create / stream.start can reject with
CreateErrors ==
  {SandboxError("Error", 0, "UND_ERR_CONNECT_TIMEOUT", <<"fetch failed">>),
   SandboxError("Error", 0, "", <<"request timeout">>),
   SandboxError("Error", 0, "", <<"quota exceeded">>)}

\* what stream.getUrl can throw
StreamErrors ==
  {SandboxError("Error", 0, "", <<"Server is not running">>),
   SandboxError("Error", 0, "", <<"stream failed">>)}

isNotFound(error) ==
  \/ error.name = "NotFoundError"
  \/ error.statusCode = 404
  \/ error.code = "404"
  \/ Includes(error.message, "404")
  \/ Includes(error.message, "doesn't exist")
  \/ Includes(error.message, "not found")

isTimeout(err) ==
  \/ err.code = "UND_ERR_CONNECT_TIMEOUT"
  \/ Includes(err.message, "Connect Timeout")
  \/ Includes(err.message, "timeout")

maxCreateRetries == 3

\* mutant: one more getUrl attempt than the ceiling
maxRetries_OneMore == 5 + 1

maxRetries == 5

\* the error getDesktop throws after a failed Sandbox.connect(id)
ConnectFailure(id, error) ==
  IF isNotFound(error)
    THEN <<"Sandbox ", id, NotFoundSuffix>>
    ELSE <<"Failed to connect to sandbox ", id, ": ">> \o error.message

\* the catch of getDesktopURL wraps whatever was thrown inside
FailedToGetDesktop(message) == <<"Failed to get desktop: ">> \o message

NewDesktopCall(id) ==
  [id |-> id, phase |-> IF id # Undefined THEN "connect" ELSE "create",
   attempt |-> 0, connects |-> 0, creates |-> 0, getUrls |-> 0,
   errors |-> << >>, sandboxId |-> Null, outcome |-> Undefined]

Returned(call, url) ==
  [call EXCEPT !.phase = "returned",
               !.outcome = Some([streamUrl |-> url, id |-> call.sandboxId])]

Thrown(call, message) ==
  [call EXCEPT !.phase = "thrown",
               !.outcome = Some([message |-> FailedToGetDesktop(message)])]

\* getDesktop(id) with an id: one Sandbox.connect, no create after a failure.
\* `result` is Undefined when the promise resolves, Some(error) otherwise.
connectStep(call, result) ==
  LET c == [call EXCEPT !.connects = @ + 1] IN
  IF result = Undefined
    THEN [c EXCEPT !.phase = "getUrl", !.attempt = 0, !.sandboxId = call.id[1]]
    ELSE Thrown([c EXCEPT !.errors = Append(@, result[1].message)],
                ConnectFailure(call.id[1], result[1]))

\* one pass of the create loop of getDesktop
createStep(call, result) ==
  IF call.attempt >= maxCreateRetries
    THEN Thrown(call, call.errors[Len(call.errors)])
  ELSE
    LET c == [call EXCEPT !.creates = @ + 1] IN
    IF result = Undefined
      THEN [c EXCEPT !.phase = "getUrl", !.attempt = 0,
                     !.sandboxId = CreatedSandboxId]
    ELSE IF isTimeout(result[1]) /\ call.attempt < maxCreateRetries - 1
      THEN [c EXCEPT !.attempt = @ + 1, !.errors = Append(@, result[1].message)]
    ELSE Thrown([c EXCEPT !.errors = Append(@, result[1].message)],
                result[1].message)

\* one pass of the getUrl loop of getDesktopURL
getUrlStep(call, result) ==
  IF call.attempt >= maxRetries
    THEN Thrown(call, call.errors[Len(call.errors)])
  ELSE
    LET c == [call EXCEPT !.getUrls = @ + 1] IN
    IF result = Undefined
      THEN Returned(c, <<"stream of ", call.sandboxId>>)
    ELSE IF call.attempt < maxRetries - 1
      THEN [c EXCEPT !.attempt = @ + 1, !.errors = Append(@, result[1].message)]
    ELSE Thrown([c EXCEPT !.errors = Append(@, result[1].message)],
                result[1].message)

Terminated(call) == call.phase \in {"returned", "thrown"}

\* ------------------------------------------------------ sandbox connect, driven
getDesktopURL(id) ==
  /\ IF desktopCall = Undefined THEN TRUE ELSE Terminated(desktopCall[1])
  /\ desktopCall' = Some(NewDesktopCall(id))
  /\ UNCHANGED vnc

ConnectAttempt(result) ==
  /\ desktopCall # Undefined /\ desktopCall[1].phase = "connect"
  /\ desktopCall' = Some(connectStep(desktopCall[1], result))
  /\ UNCHANGED vnc

CreateAttempt(result) ==
  /\ desktopCall # Undefined /\ desktopCall[1].phase = "create"
  /\ desktopCall' = Some(createStep(desktopCall[1], result))
  /\ UNCHANGED vnc

GetUrlAttempt(result) ==
  /\ desktopCall # Undefined /\ desktopCall[1].phase = "getUrl"
  /\ desktopCall' = Some(getUrlStep(desktopCall[1], result))
  /\ UNCHANGED vnc

NextConnect ==
  \/ \E id \in {Undefined} \cup {Some(s) : s \in SandboxIds} : getDesktopURL(id)
  \/ \E result \in {Undefined} \cup {Some(e) : e \in ConnectErrors} : ConnectAttempt(result)
  \/ \E result \in {Undefined} \cup {Some(e) : e \in CreateErrors} : CreateAttempt(result)
  \/ \E result \in {Undefined} \cup {Some(e) : e \in StreamErrors} : GetUrlAttempt(result)

SpecConnect ==
  Init /\ [][NextConnect /\ UNCHANGED <<eventVars, retryVars, storageVars,
                                        callVars, sessionVars, payloadVars,
                                        pageVars>>]_vars

\* ------------------------------------------------------------------ useVNC
\* src/lib/hooks/use-vnc.ts and src/lib/utils/vnc-helpers.ts. getDesktopURL is
\* a server action: the hook sees it resolve or reject.

\* src/unnamed/part_006 lines 45-54
isNotFoundError(errorMessage) ==
  \/ Includes(errorMessage, "not found")
  \/ Includes(errorMessage, "doesn't exist")
  \/ Includes(errorMessage, "expired")
  \/ Includes(errorMessage, "404")
  \/ Includes(errorMessage, "NotFoundError")

\* the button hands its click event to refresh() as sandboxIdOverride
ClickEvent == "click event"

FreshSandboxIds == {"fresh1", "fresh2"}

Resolved(id) == [ok |-> TRUE, id |-> id, streamUrl |-> <<"stream of ", id>>]

Rejected(message) == [ok |-> FALSE, message |-> FailedToGetDesktop(message)]

\* how getDesktopURL(id) can end
getDesktopURLOutcomes(id) ==
  IF id = Undefined
    THEN {Resolved(fresh) : fresh \in FreshSandboxIds}
           \cup {Rejected(e.message) : e \in CreateErrors \cup StreamErrors}
  ELSE IF id = Some(ClickEvent)
    THEN {Rejected(ConnectFailure(ClickEvent, e)) : e \in ConnectErrors}
  ELSE {Resolved(id[1])}
         \cup {Rejected(ConnectFailure(id[1], e)) : e \in ConnectErrors}
         \cup {Rejected(e.message) : e \in StreamErrors}

\* mutant: initialize() does not look at the in-flight flag
initialize_Unguarded(v, session, sandboxIdOverride) ==
  IF session = Undefined
    THEN [v EXCEPT !.returnedEarly = TRUE]
    ELSE [v EXCEPT
            !.returnedEarly = FALSE,
            !.isInitializingRef = TRUE, !.isInitializing = TRUE,
            !.inFlight = @ + 1, !.settled = Undefined,
            !.call = Some([requester |-> session[1], phase |-> "initialize",
                           session |-> session[1], error |-> << >>,
                           id |-> IF sandboxIdOverride # Undefined
                                    THEN sandboxIdOverride
                                  ELSE IF session[1].sandboxId # Null
                                    THEN Some(session[1].sandboxId)
                                  ELSE Undefined])]

\* use-vnc.ts lines 42-54: initialize() up to the await of getDesktopURL
initialize(v, session, sandboxIdOverride) ==
  IF session = Undefined \/ v.isInitializingRef
    THEN [v EXCEPT !.returnedEarly = TRUE]
    ELSE [v EXCEPT
            !.returnedEarly = FALSE,
            !.isInitializingRef = TRUE, !.isInitializing = TRUE,
            !.inFlight = @ + 1, !.settled = Undefined,
            !.call = Some([requester |-> session[1], phase |-> "initialize",
                           session |-> session[1], error |-> << >>,
                           id |-> IF sandboxIdOverride # Undefined
                                    THEN sandboxIdOverride
                                  ELSE IF session[1].sandboxId # Null
                                    THEN Some(session[1].sandboxId)
                                  ELSE Undefined])]

\* lines 97-128: the effect on the active session and the displayed stream
vncEffect(v, activeSession) ==
  IF activeSession = Undefined
    THEN [v EXCEPT !.isInitializing = FALSE]
  ELSE IF /\ v.lastInitializedSessionIdRef = activeSession[1].id
          /\ v.streamUrl # Null
          /\ \/ activeSession[1].sandboxId = v.sandboxId
             \/ activeSession[1].sandboxId = Null /\ v.sandboxId # Null
    THEN [v EXCEPT !.isInitializing = FALSE]
  ELSE
    LET needsInit ==
          \/ v.lastInitializedSessionIdRef # activeSession[1].id
          \/ v.streamUrl = Null
          \/ /\ activeSession[1].sandboxId # Null
             /\ activeSession[1].sandboxId # v.sandboxId
          \/ activeSession[1].sandboxId = Null /\ v.sandboxId = Null
    IN IF needsInit /\ ~v.isInitializingRef
         THEN initialize(v, activeSession, Undefined)
         ELSE [v EXCEPT !.isInitializing = FALSE]

\* the dependency list of the effect, line 128
EffectDeps(v, activeSession) ==
  <<IF activeSession = Undefined THEN Null ELSE activeSession[1].id,
    IF activeSession = Undefined THEN Null ELSE activeSession[1].sandboxId,
    v.streamUrl, v.sandboxId>>

\* the hook's state after a render: the effect runs when a dependency changed
Rendered(v) ==
  IF EffectDeps(v, getActiveSession(sessionStore'))
       # EffectDeps(vnc, getActiveSession(sessionStore))
    THEN vncEffect(v, getActiveSession(sessionStore'))
    ELSE v

\* lines 80-84, the finally block
Finally(v, how, id) ==
  [v EXCEPT !.isInitializing = FALSE, !.isInitializingRef = FALSE,
            !.settled = Some([how |-> how, id |-> id,
                              requester |-> v.call[1].requester.id,
                              error |-> v.call[1].error]),
            !.call = Undefined]

\* lines 56-59 and 74-77
Displayed(v, outcome, sessionId) ==
  [v EXCEPT !.streamUrl = outcome.streamUrl, !.sandboxId = outcome.id,
            !.lastInitializedSessionIdRef = sessionId]

\* lines 54-70: getDesktopURL of initialize() resolves or rejects
InitializeSettles(outcome) ==
  LET call == vnc.call[1]
      landed == [vnc EXCEPT !.inFlight = @ - 1]
      current == getActiveSession(sessionStore)
  IN IF outcome.ok
       THEN /\ IF call.session.sandboxId # outcome.id
                 THEN StoreUpdateSession(
                        [call.session EXCEPT !.sandboxId = outcome.id])
                 ELSE UNCHANGED <<sessionVars, storageVars, eventVars>>
            /\ vnc' = Rendered(Finally(
                        Displayed(landed, outcome, call.session.id),
                        "connected", outcome.id))
     ELSE IF current # Undefined
       THEN /\ vnc' = [landed EXCEPT
                         !.inFlight = @ + 1,
                         !.call = Some([call EXCEPT
                                          !.phase = "handleDesktopError",
                                          !.session = current[1],
                                          !.error = outcome.message])]
            /\ UNCHANGED <<sessionVars, storageVars, eventVars>>
     ELSE /\ vnc' = Finally(landed, "failed", Null)
          /\ UNCHANGED <<sessionVars, storageVars, eventVars>>

\* vnc-helpers.ts lines 35-58 and use-vnc.ts lines 72-84: getDesktopURL of
\* handleDesktopError resolves or rejects
handleDesktopError(outcome) ==
  LET call == vnc.call[1]
      landed == [vnc EXCEPT !.inFlight = @ - 1]
  IN IF outcome.ok
       THEN /\ StoreUpdateSession(
                 [call.session EXCEPT !.sandboxId = outcome.id])
            /\ vnc' = Rendered(Finally(
                        Displayed(landed, outcome, call.session.id),
                        "recovered", outcome.id))
       ELSE /\ vnc' = Finally(landed, "failed", Null)
            /\ UNCHANGED <<sessionVars, storageVars, eventVars>>

\* ---------------------------------------------------------- useVNC, driven
VncMount ==
  /\ sessionStore.isLoading
  /\ MountEffect
  /\ vnc' = Rendered(vnc)

VncSetActiveSession(sessionId) ==
  /\ ~sessionStore.isLoading
  /\ sessionId # sessionStore.activeSessionId
  /\ StoreSetActiveSession(sessionId)
  /\ vnc' = Rendered(vnc)

\* part_001 lines 335-342: the button shows over a stream and is disabled
\* while isInitializing
Refresh ==
  /\ vnc.streamUrl # Null /\ ~vnc.isInitializing
  /\ vnc' = initialize(vnc, getActiveSession(sessionStore), Some(ClickEvent))
  /\ UNCHANGED <<sessionVars, storageVars, eventVars>>

InitializeResolves ==
  /\ vnc.call # Undefined /\ vnc.call[1].phase = "initialize"
  /\ \E outcome \in getDesktopURLOutcomes(vnc.call[1].id) :
       InitializeSettles(outcome)

RecoveryResolves ==
  /\ vnc.call # Undefined /\ vnc.call[1].phase = "handleDesktopError"
  /\ \E outcome \in getDesktopURLOutcomes(Undefined) :
       handleDesktopError(outcome)

InitVncDriven ==
  /\ InitEvents
  /\ InitRetry
  /\ InitCalls
  /\ InitSessionStore
  /\ InitPage
  /\ InitVnc
  /\ capacity = SizeOf(EarlierItem) + ProbeItemSize
                  + 2 * (Len(SessionKeys) + Len(EventKeys))
  /\ windowDefined = TRUE
  /\ storage = Some(EarlierItem)
  /\ lastSave = Undefined
  /\ loaded = Undefined
  /\ found = Undefined
  /\ initializing = Undefined
  /\ deleted = {}

NextVnc ==
  \/ VncMount
  \/ \E sessionId \in IndexIds : VncSetActiveSession(sessionId)
  \/ Refresh
  \/ InitializeResolves
  \/ RecoveryResolves

SpecVnc ==
  InitVncDriven
    /\ [][NextVnc /\ UNCHANGED <<retryVars, callVars, payloadVars, pageVars,
                                 desktopCall>>]_vars

\* ------------------------------------------- Event Tracker, result shapes
\* the raw results a tool invocation can carry
ResultShapes ==
  {ResultNone, ResultImage, ResultTextObj, ResultOther,
   [kind |-> "object", type |-> "image"]}
    \cup {ResultString(s) : s \in ResultStrings}

\* one delta of the agent's turn: a tool call, or its result
ToolDelta(c, phase, result) ==
  RecordedStreamChange(
    <<UserMessage("m1"),
      AssistantMessage("m2", <<ToolPart(c.id, c.tool, phase, c.args,
                                        result)>>)>>,
    "streaming")

NextResults ==
  \/ \E c \in StreamToolCalls : ToolDelta(c, "call", ResultNone)
  \/ \E c \in StreamToolCalls :
       \E result \in IF c.tool = "computer" THEN ResultShapes
                      ELSE {ResultString("ok"), ResultString("Error")} :
         ToolDelta(c, "result", result)
  \/ ClockAdvance /\ UNCHANGED lastStream

SpecResults ==
  Init /\ [][NextResults /\ UNCHANGED <<retryVars, storageVars, calls,
                                        sessionVars, payloadVars, pageVars,
                                        vncVars>>]_vars

\* ------------------------------------------------ session names, fallback
\* how many sessions are created on top of the earlier ones
MaxCreated == 1

\* room for the earlier sessions, the created ones and a message in each
FallbackCapacity ==
  SizeOf(EarlierItem)
    + (MaxCreated + 1) * (SizeOf(Stringify(<<NewRecord>>)) + ProbeItemSize
                          + Len(SessionKeys) + Len(EventKeys))

InitFallback ==
  /\ InitEvents
  /\ InitRetry
  /\ InitCalls
  /\ InitSessionStore
  /\ InitPage
  /\ InitVnc
  /\ capacity = FallbackCapacity
  /\ windowDefined = TRUE
  /\ storage \in {Undefined, Some(EarlierItem)}
  /\ lastSave = Undefined
  /\ loaded = Undefined
  /\ found = Undefined
  /\ initializing = Undefined
  /\ deleted = {}

NextFallback ==
  \/ sessionStore.isLoading /\ MountEffect
  \/ /\ ~sessionStore.isLoading
     /\ uuids < MaxCreated
     /\ StoreCreateSession(Undefined, Null)
  \/ /\ ~sessionStore.isLoading
     /\ \E sessionId \in IndexIds : StoreDeleteSession(sessionId)
  \/ /\ ~sessionStore.isLoading
     /\ \E sessionId \in IndexIds, messages \in MessageLists :
          StoreSaveSessionMessages(sessionStore.sessions, sessionId, messages)

SpecFallback ==
  InitFallback
    /\ [][NextFallback /\ UNCHANGED <<retryVars, callVars, payloadVars,
                                      pageVars, vncVars>>]_vars

\* ------------------------------------------------- the page, session switch
EntryIn(state, sessionId) ==
  state.sessions[FindIndex(state.sessions, sessionId)]

\* part_007 lines 60-85 with the save effects of part_013: the sidebar makes
\* another session the active one.  The first render runs the loader, which
\* reads the session's stored data, and the save effects with the chat and
\* the log as they are; the state the loader set is rendered next.  `kept`
\* says whether useChat still hands out the list it had (it rebuilds the list
\* from the request while a response is streaming) or the loaded one.
SwitchSession(sessionId, kept) ==
  /\ sessionId # sessionStore.activeSessionId
  /\ \E switched \in {sessionStoreReducer(sessionStore,
                        [type |-> "SET_ACTIVE_SESSION",
                         sessionId |-> sessionId])},
        sessionData \in {loadSessionData(storage, capacity, windowDefined,
                                         sessionId, now)} :
       LET loadedMessages == IF sessionData = Undefined THEN << >>
                             ELSE sessionData[1].messages
           loadedEvents == IF sessionData = Undefined THEN << >>
                           ELSE sessionData[1].events
           messages == IF kept THEN chatMessages ELSE loadedMessages
           \* the event effect of the first render: the log is the old one
           savesOld == /\ EventIds(eventStore.events) # EventIds(eventsRef)
                       /\ Len(eventStore.events) > 0
           firstRef == IF savesOld THEN eventStore.events ELSE eventsRef
           \* the second render: LOAD_EVENTS has been reduced, and the
           \* tracker runs when the list of messages is another one
           loadedStore == eventStoreReducer(eventStore,
                            [type |-> "LOAD_EVENTS", events |-> loadedEvents])
       IN \E first \in {IF savesOld
                          THEN SavedEvents(switched, storage, capacity,
                                           windowDefined, sessionId,
                                           eventStore.events, now)
                          ELSE [state |-> switched, item |-> storage]},
             ts \in {IF messages # chatMessages
                       THEN TrackerEffect([store |-> loadedStore,
                                           processed |-> processedToolCalls,
                                           startTimes |-> eventStartTimes],
                                          messages, streamStatus, now)
                       ELSE [store |-> loadedStore,
                             processed |-> processedToolCalls,
                             startTimes |-> eventStartTimes]} :
            LET savesNew == /\ Len(ts.store.events) # Len(eventStore.events)
                            /\ EventIds(ts.store.events) # EventIds(firstRef)
                            /\ Len(ts.store.events) > 0
            IN \E second \in {IF savesNew
                                THEN SavedEvents(first.state, first.item,
                                                 capacity, windowDefined,
                                                 sessionId, ts.store.events,
                                                 now)
                                ELSE first} :
                 /\ sessionStore' = second.state
                 /\ storage' = second.item
                 /\ eventsRef' = IF savesNew THEN ts.store.events
                                 ELSE firstRef
                 /\ chatMessages' = messages
                 /\ eventStore' = ts.store
                 /\ processedToolCalls' = ts.processed
                 /\ eventStartTimes' = ts.startTimes
                 /\ saveTimeoutRef' =
                      ArmedTimer(Some(EntryIn(second.state, sessionId)),
                                 messages, lastSavedMessagesRef)
                 /\ UNCHANGED <<streamStatus, lastSavedMessagesRef, now,
                                firstPhase, uuids, sessionCall, capacity,
                                windowDefined, lastSave, loaded, found>>

\* the session the model's exchange takes place in
ChatSessionId == "s2"

\* the agent's turn of that exchange: one tool call, then its result
SwitchPartLists ==
  {<<ToolPart("t1", "computer", "call", [action |-> "screenshot"],
              ResultNone)>>,
   <<ToolPart("t1", "computer", "result", [action |-> "screenshot"],
              ResultString("ok"))>>}

NextSwitch ==
  \/ sessionStore.isLoading /\ MountEffect /\ UNCHANGED pageVars
  \/ /\ ~sessionStore.isLoading
     /\ sessionStore.activeSessionId = ChatSessionId
     /\ Submit
  \/ \E parts \in SwitchPartLists : Stream(parts)
  \/ Finish
  \/ SaveTimerFires
  \/ /\ ~sessionStore.isLoading
     /\ \E sessionId \in IndexIds, kept \in BOOLEAN :
          /\ streamStatus # "ready" => kept
          /\ SwitchSession(sessionId, kept)

SpecSwitch ==
  InitPageDriven
    /\ [][NextSwitch /\ UNCHANGED <<retryVars, callVars, payloadVars,
                                    vncVars>>]_vars

\* ------------------------------------------------------------------ claims
EventsWithId(id) ==
  {i \in DOMAIN eventStore.events : eventStore.events[i].id = id}

\* C1: every toolCallId of a recognised tool that the tracker has scanned in
\* call or result phase has exactly one event in the log (never zero, never
\* two), whatever phase it was first scanned in.
C1_ExactlyOneEventPerToolCall ==
  \A id \in DOMAIN firstPhase : Cardinality(EventsWithId(id)) = 1

KindOf(event) ==
  IF event.type = "computer" THEN event.payload.action ELSE "bash"

\* C2: for each of the 11 action kinds, counts holds the number of events of
\* that kind in the log.
C2_CountsEqualRecount ==
  \A a \in ActionTypes :
    eventStore.counts[a] =
      Cardinality({i \in DOMAIN eventStore.events :
                     KindOf(eventStore.events[i]) = a})

C2_Witness ==
  /\ Len(eventStore.events) = 2
  /\ eventStore.counts["screenshot"] = 1
  /\ eventStore.counts["bash"] = 1
  /\ \E i \in DOMAIN eventStore.events :
       eventStore.events[i].status = "complete"

NoTimerPending == intervals = {} /\ timeouts = {} /\ failure = Undefined

ResendsOf(n) == {i \in DOMAIN resends : resends[i].origin = n}

\* C3: once a countdown with a captured message has been started and cancel
\* is never called, the countdown runs out, the resend callback is invoked
\* exactly once with the captured text, and the controller is idle again.
\* Stated of the outcome: when no timer is pending any more, the latest such
\* countdown has produced exactly one resend, carrying its message.
C3_CountdownEndsInOneResend ==
  (/\ NoTimerPending
   /\ entries # << >>
   /\ cancelled = {}
   /\ entries[Len(entries)].message # Null)
    => /\ rateLimitState = Undefined
       /\ Cardinality(ResendsOf(Len(entries))) = 1
       /\ \A i \in ResendsOf(Len(entries)) :
            resends[i].message = entries[Len(entries)].message

\* C4: after cancel() the timer is stopped and the controller is idle, and
\* the deferred resend of a cancelled countdown never fires afterwards.
C4_NoResendAfterCancel ==
  /\ lastOp = "cancel" =>
       /\ rateLimitState = Undefined
       /\ intervalRef = 0
       /\ intervals = {}
  /\ \A i \in DOMAIN resends : ~resends[i].originCancelled

HasRateLimitPhrase(text) ==
  \E f \in text : f \in {"rate limit", "Rate Limit", "rate_limit", "429"}

\* the failures the claim calls rate-limiting: status 429, a rate-limit
\* phrase, or either of these one level inside a wrapped retry error
DescribedAsRateLimit(error) ==
  \/ error.status = Some(429)
  \/ HasRateLimitPhrase(error.message)
  \/ /\ error.lastError # Undefined
     /\ \/ error.lastError[1].statusCode = Some(429)
        \/ HasRateLimitPhrase(error.lastError[1].message)

\* C5: the controller is waiting only after a failure of the described
\* rate-limiting class, and handling any other failure changes nothing of
\* the controller: no state, no timer, no captured callback.
C5_WaitingOnlyAfterRateLimit ==
  /\ [](rateLimitState # Undefined =>
          /\ entries # << >>
          /\ DescribedAsRateLimit(entries[Len(entries)].error))
  /\ [][(/\ failure # Undefined
         /\ failure' = Undefined
         /\ ~DescribedAsRateLimit(failure[1]))
          => UNCHANGED <<rateLimitState, intervalRef, retryCallbackRef,
                         intervals, timeouts>>]_vars

\* waiting was entered on the strength of the wrapped error's status alone
C5_Witness ==
  /\ rateLimitState # Undefined
  /\ entries[1].error.status = Undefined
  /\ ~HasRateLimitPhrase(entries[1].error.message)
  /\ entries[1].error.lastError[1].statusCode = Some(429)

\* the explicit retry-after value an error carries, if any
CarriedRetryAfter(error) ==
  LET inHeader ==
        IF /\ error.lastError # Undefined
           /\ error.lastError[1].responseHeaders # Undefined
           /\ "retry-after" \in DOMAIN error.lastError[1].responseHeaders[1]
          THEN LET h == error.lastError[1].responseHeaders[1]["retry-after"]
               IN IF h.kind = "number" THEN Some(h.n)
                  ELSE IF h.text = "3" THEN Some(3) ELSE Undefined
          ELSE Undefined
      inText ==
        IF ~error.isError THEN Undefined
        ELSE IF "retry-after: 0" \in error.message THEN Some(0)
        ELSE IF "retry-after: 2" \in error.message THEN Some(2)
        ELSE IF "Retry After 3" \in error.message THEN Some(3)
        ELSE Undefined
  IN IF inHeader # Undefined THEN inHeader ELSE inText

\* C6: the countdown starts at the explicit retry-after value when the error
\* carries one, whatever integer it is; otherwise at 60, 3660 or 86700 for
\* the phrases per minute, per hour, per day; otherwise at the default
\* (60 from extractRetryAfter or 65 from handleRateLimit).
C6_InitialCountdown ==
  \A i \in DOMAIN entries :
    LET error == entries[i].error
        text == IF error.isError THEN error.message ELSE {}
    IN IF CarriedRetryAfter(error) # Undefined
         THEN entries[i].countdown = CarriedRetryAfter(error)[1]
       ELSE IF text \cap {"per minute", "Per Minute"} # {}
         THEN entries[i].countdown = 60
       ELSE IF "per hour" \in text THEN entries[i].countdown = 3660
       ELSE IF "per day" \in text THEN entries[i].countdown = 86700
       ELSE entries[i].countdown \in {60, 65}

StoredText == IF storage = Undefined THEN << >> ELSE storage[1]

IdsOf(sessions) == [i \in 1..Len(sessions) |-> sessions[i].id]

\* an object as JSON sees it: without the members that are undefined
DefinedPart(object) ==
  [key \in {k \in DOMAIN object : IsDefinedMember(object, k)} |-> object[key]]

SameSession(input, output) ==
  /\ output.id = input.id
  /\ output.name = input.name
  /\ output.messages = input.messages
  /\ Len(output.events) = Len(input.events)
  /\ \A j \in 1..Len(input.events) :
       DefinedPart(output.events[j]) = DefinedPart(input.events[j])

\* C7: saveSessions(list) directly followed by loadSessions() returns the
\* sessions of the list, in order, each with the id, name, messages and
\* events it was saved with, for every list of at most 50 sessions whose
\* JSON text fits in the medium.
C7_SaveThenLoadRoundTrip ==
  (/\ lastSave # Undefined
   /\ loaded # Undefined
   /\ lastSave[1].call = "saveSessions"
   /\ windowDefined
   /\ Len(lastSave[1].supplied) <= maxSessions
   /\ Fits(Stringify(lastSave[1].supplied), capacity))
    => /\ Len(loaded[1]) = Len(lastSave[1].supplied)
       /\ \A i \in 1..Len(lastSave[1].supplied) :
            i <= Len(loaded[1])
              /\ SameSession(lastSave[1].supplied[i], loaded[1][i])

Smaller(a, b) == IF a <= b THEN a ELSE b

\* C8: the medium never holds more than 50 sessions, and what a save by
\* saveSessions or saveSession leaves stored is the tail of the list it was
\* given: the sessions dropped are the front of that list, all 50 last ones
\* being kept when the first write succeeds.
C8_CeilingDropsOldest ==
  /\ Len(StoredText) <= maxSessions
  /\ (/\ lastSave # Undefined
      /\ lastSave[1].writes # << >>
      /\ ~lastSave[1].cleared)
       => LET ids == IdsOf(lastSave[1].supplied)
              kept == Len(StoredText)
          IN /\ kept <= Len(ids)
             /\ IdsOf(Parse(StoredText))
                  = SubSeq(ids, Len(ids) - kept + 1, Len(ids))
             /\ lastSave[1].writes[1].ok
                  => kept = Smaller(Len(ids), maxSessions)

\* more than 50 sessions were supplied, the first of them the most recently
\* updated one, and the first write succeeded
C8_Witness ==
  /\ lastSave # Undefined
  /\ Len(lastSave[1].supplied) > maxSessions
  /\ lastSave[1].writes # << >>
  /\ lastSave[1].writes[1].ok
  /\ Len(StoredText) = maxSessions
  /\ \A i \in 2..Len(lastSave[1].supplied) :
       lastSave[1].supplied[1].updatedAt > lastSave[1].supplied[i].updatedAt

\* the reduced set of the claim: the last 25 sessions, the events of all
\* but the last 5 of them emptied, everything else as supplied
ExpectedReduced(sessions) ==
  LET n == Len(sessions)
      kept == Smaller(n, 25)
  IN [i \in 1..kept |->
        IF i <= kept - 5
          THEN [sessions[n - kept + i] EXCEPT !.events = << >>]
          ELSE sessions[n - kept + i]]

\* C9: a save whose first write exceeds the quota next writes the reduced
\* set, and the stored item is removed only by a save in which that reduced
\* write failed as well.
C9_ReducedWriteBeforeClear ==
  lastSave # Undefined =>
    LET run == lastSave[1]
    IN /\ (run.writes # << >> /\ ~run.writes[1].ok)
            => /\ Len(run.writes) = 2
               /\ run.writes[2].text = Stringify(ExpectedReduced(run.supplied))
       /\ run.cleared
            => /\ Len(run.writes) = 2
               /\ ~run.writes[1].ok
               /\ ~run.writes[2].ok
               /\ storage = Undefined
       /\ (Len(run.writes) = 2 /\ run.writes[2].ok)
            => storage = Some(run.writes[2].text)

\* a save cleared the medium after the reduced set of a long list, events
\* emptied, did not fit either
C9_Witness ==
  /\ lastSave # Undefined
  /\ lastSave[1].cleared
  /\ storage = Undefined
  /\ Len(lastSave[1].supplied) > maxSessions \div 2
  /\ Len(lastSave[1].writes[2].text) = maxSessions \div 2
  /\ lastSave[1].supplied[Len(lastSave[1].supplied)].events # << >>

Dispatched(name) ==
  lastSave # Undefined
    /\ \E i \in 1..Len(lastSave[1].dispatched) :
         lastSave[1].dispatched[i] = name

\* C10: one save dispatches 'storage-quota-warning' exactly when its reduced
\* write succeeded and 'storage-quota-error' exactly when it cleared the
\* medium, nothing when its first write succeeded, and never both.
C10_QuotaNotifications ==
  lastSave # Undefined =>
    LET run == lastSave[1]
    IN /\ Dispatched("storage-quota-warning")
            <=> (Len(run.writes) = 2 /\ run.writes[2].ok)
       /\ Dispatched("storage-quota-error") <=> run.cleared
       /\ (run.writes # << >> /\ run.writes[1].ok) => run.dispatched = << >>
       /\ Len(run.dispatched) <= 1

\* the reduced write of a save succeeded and the warning went out
C10_Witness ==
  /\ lastSave # Undefined
  /\ lastSave[1].dispatched = <<"storage-quota-warning">>
  /\ Len(lastSave[1].writes) = 2
  /\ storage = Some(lastSave[1].writes[2].text)

\* the medium is absent, or too full to take the probe item
MediumUnusable ==
  ~windowDefined \/ Used(storage) + ProbeItemSize > capacity

\* C11: while the medium is absent or unusable, loadSessions returns the
\* empty list and getSession null, and saveSessions, saveSession,
\* deleteSession and clearSessions return having written nothing,
\* dispatched nothing and left the stored item as it was.
C11_UnusableMediumIsNoOp ==
  /\ [](MediumUnusable =>
          /\ loaded \in {Undefined, Some(<< >>)}
          /\ found \in {Undefined, Some(Undefined)})
  /\ [][MediumUnusable =>
          /\ storage' = storage
          /\ (lastSave' # lastSave /\ lastSave' # Undefined) =>
               /\ lastSave'[1].writes = << >>
               /\ lastSave'[1].dispatched = << >>
               /\ ~lastSave'[1].cleared]_vars

\* there is no window: a save was skipped over a stored item and
\* getSession of a stored id returned null
C11_Witness ==
  /\ ~windowDefined
  /\ storage # Undefined
  /\ lastSave # Undefined
  /\ lastSave[1].supplied # << >>
  /\ lastSave[1].writes = << >>
  /\ found = Some(Undefined)

NeedsMigration(record) ==
  ~Has(record, "version") \/ record.version # SESSION_STORAGE_VERSION

\* the fields of a stored record other than its version tag
PayloadKeys ==
  {"id", "name", "createdAt", "updatedAt", "messages", "events", "eventIds",
   "sandboxId"}

LastCall == calls[Len(calls)]

\* C13, as claimed: selectEvent(X) directly followed by selectEvent(X) with
\* the same id X leaves selectedEventId = null.
C13_SelectTwiceDeselects ==
  (/\ Len(calls) = 2
   /\ calls[1].op = "selectEvent"
   /\ calls[2].op = "selectEvent"
   /\ calls[1].arg = calls[2].arg
   /\ calls[1].arg # Null)
    => eventStore.selectedEventId = Null

\* C13, amended: selectEvent(X) sets selectedEventId to X whatever it was;
\* the toggle is the card's click handler, which deselects when its event is
\* the selected one and selects it otherwise, so that two clicks in a row on
\* the card of an event that was not selected leave selectedEventId = null.
C13_ClickTogglesSelection ==
  calls # << >> =>
    /\ LastCall.op = "selectEvent"
         => eventStore.selectedEventId = LastCall.arg
    /\ LastCall.op = "handleClick"
         => eventStore.selectedEventId
              = IF LastCall.before.selectedEventId = LastCall.arg
                  THEN Null ELSE LastCall.arg
    /\ (/\ Len(calls) = 2
        /\ calls[1].op = "handleClick"
        /\ calls[2].op = "handleClick"
        /\ calls[1].arg = calls[2].arg
        /\ calls[1].before.selectedEventId # calls[1].arg)
         => eventStore.selectedEventId = Null

\* the card of an unselected event was clicked twice in a row
C13_Witness ==
  /\ Len(calls) = 2
  /\ calls[1].op = "handleClick"
  /\ calls[2].op = "handleClick"
  /\ calls[1].arg = calls[2].arg
  /\ calls[1].before.selectedEventId # calls[1].arg
  /\ calls[2].before.selectedEventId = calls[1].arg
  /\ eventStore.selectedEventId = Null

\* C14: updateEvent(id, fields) with an id that no event of the log has
\* leaves events, counts, agentStatus and selectedEventId as they were.
C14_UpdateOfAbsentIdIsNoOp ==
  (/\ calls # << >>
   /\ LastCall.op = "updateEvent"
   /\ \A i \in 1..Len(LastCall.before.events) :
        LastCall.before.events[i].id # LastCall.arg)
    => /\ eventStore.events = LastCall.before.events
       /\ eventStore.counts = LastCall.before.counts
       /\ eventStore.agentStatus = LastCall.before.agentStatus
       /\ eventStore.selectedEventId = LastCall.before.selectedEventId

\* updateEvent was called with an unknown id on a log that holds events
C14_Witness ==
  /\ calls # << >>
  /\ LastCall.op = "updateEvent"
  /\ LastCall.arg = "t9"
  /\ Len(LastCall.before.events) = 2
  /\ LastCall.before.selectedEventId # Null
  /\ eventStore = LastCall.before

IdsOfEvents(events) == [i \in 1..Len(events) |-> events[i].id]

\* C15: the ids of the event log are pairwise distinct and never change:
\* addEvent with an id already in the log leaves the log as it was, and
\* updateEvent keeps every event's id and position.
C15_IdsUniqueAndImmutable ==
  /\ \A i, j \in 1..Len(eventStore.events) :
       i # j => eventStore.events[i].id # eventStore.events[j].id
  /\ calls # << >> =>
       /\ (/\ LastCall.op = "addEvent"
           /\ \E i \in 1..Len(LastCall.before.events) :
                LastCall.before.events[i].id = LastCall.arg)
            => eventStore.events = LastCall.before.events
       /\ LastCall.op = "updateEvent"
            => IdsOfEvents(eventStore.events)
                 = IdsOfEvents(LastCall.before.events)

Settled == {"complete", "error"}

\* C16: once an event is complete or error, no call of the store (an update
\* from a stream replay, a session load, any other operation) leaves an event
\* of that id with another status.
C16_SettledStatusNeverChanges ==
  calls # << >> =>
    \A i \in 1..Len(LastCall.before.events) :
      \A j \in 1..Len(eventStore.events) :
        (/\ LastCall.before.events[i].status \in Settled
         /\ eventStore.events[j].id = LastCall.before.events[i].id)
          => eventStore.events[j].status = LastCall.before.events[i].status

StreamMessages == lastStream[1].messages

StreamStatus == lastStream[1].chatStatus

HasCallPhase(messages) ==
  \E i \in 1..Len(messages) : \E j \in 1..Len(messages[i].parts) :
    /\ messages[i].parts[j].type = "tool-invocation"
    /\ messages[i].parts[j].toolInvocation.state = "call"

Unresolved(message) ==
  \E j \in 1..Len(message.parts) :
    /\ message.parts[j].type = "tool-invocation"
    /\ message.parts[j].toolInvocation.state # "result"

LastRole(messages) ==
  IF messages = << >> THEN "none" ELSE messages[Len(messages)].role

FourRulePrecedence(messages, chatStatus) ==
  IF chatStatus = "error" THEN "idle"
  ELSE IF HasCallPhase(messages) THEN "executing"
  ELSE IF /\ LastRole(messages) = "assistant"
          /\ \/ chatStatus # "ready"
             \/ Unresolved(messages[Len(messages)])
    THEN "thinking"
  ELSE "idle"

\* C17, as claimed: after every stream change the agent status is idle if the
\* transport status is error; else executing if any tool invocation is in
\* call phase; else thinking if the most recent message is from the agent and
\* (the transport is not ready or some tool call of that message is
\* unresolved); else idle.
C17_FourRulePrecedence ==
  lastStream # Undefined =>
    eventStore.agentStatus = FourRulePrecedence(StreamMessages, StreamStatus)

ObservedPrecedence(messages, chatStatus) ==
  IF chatStatus = "error" THEN "idle"
  ELSE IF LastRole(messages) \notin {"none", "user", "assistant"} THEN "idle"
  ELSE IF HasCallPhase(messages) THEN "executing"
  ELSE IF \/ chatStatus # "ready"
          \/ /\ LastRole(messages) = "assistant"
             /\ Unresolved(messages[Len(messages)])
    THEN "thinking"
  ELSE "idle"

\* C17, amended: after every stream change the agent status is a function of
\* the current message list and transport status only: idle if the transport
\* status is error; else idle if the most recent message is from neither the
\* user nor the agent; else executing if any tool invocation is in call
\* phase; else thinking if the transport is not ready (whether the most
\* recent message is from the agent, from the user, or there is none) or the
\* most recent message is from the agent and some tool call of it is
\* unresolved; else idle.
C17_ObservedPrecedence ==
  lastStream # Undefined =>
    eventStore.agentStatus = ObservedPrecedence(StreamMessages, StreamStatus)

\* a user turn was submitted and the agent has not answered yet
C17_Witness ==
  /\ lastStream # Undefined
  /\ LastRole(StreamMessages) = "user"
  /\ StreamStatus = "submitted"
  /\ ~HasCallPhase(StreamMessages)
  /\ eventStore.agentStatus = "thinking"

\* C18, as claimed: a stream containing a tool invocation in call phase
\* yields executing for every transport status, error included.
C18_CallPhaseAlwaysExecuting ==
  (lastStream # Undefined /\ HasCallPhase(StreamMessages))
    => eventStore.agentStatus = "executing"

\* C18, amended: a stream containing a tool invocation in call phase, whose
\* most recent message is from the user or the agent, yields executing for
\* the transport statuses submitted, streaming and ready, and idle for the
\* transport status error.
C18_CallPhaseExecutingUnlessError ==
  (/\ lastStream # Undefined
   /\ HasCallPhase(StreamMessages)
   /\ LastRole(StreamMessages) \in {"user", "assistant"})
    => eventStore.agentStatus
         = IF StreamStatus = "error" THEN "idle" ELSE "executing"

\* a call is pending in an earlier agent turn while the transport is ready
C18_Witness ==
  /\ lastStream # Undefined
  /\ HasCallPhase(StreamMessages)
  /\ LastRole(StreamMessages) = "user"
  /\ StreamStatus = "ready"
  /\ eventStore.agentStatus = "executing"

Created == sessionCall[1].result

\* the index after createSession: the session appended under an id no listed
\* session had, named, empty, and active
CreatedInIndex ==
  /\ sessionStore.sessions = Append(sessionCall[1].before.sessions, Created)
  /\ \A i \in 1..Len(sessionCall[1].before.sessions) :
       sessionCall[1].before.sessions[i].id # Created.id
  /\ sessionCall[1].arg = Undefined => Created.name = "New Session"
  /\ Created.messageIds = << >>
  /\ Created.eventIds = << >>
  /\ sessionStore.activeSessionId = Created.id

\* the stored item holds a record of the created session, without payload
CreatedInStorage ==
  /\ storage # Undefined
  /\ \E i \in 1..Len(Parse(storage[1])) :
       /\ Parse(storage[1])[i].id = Created.id
       /\ Parse(storage[1])[i].messages = << >>
       /\ Parse(storage[1])[i].events = << >>

AfterCreate == sessionCall # Undefined /\ sessionCall[1].op = "createSession"

\* C19, as claimed: createSession appends a session under a fresh id, named
\* New Session when no name is given, with empty messageIds and eventIds; it
\* becomes the active session, and storage immediately holds a record for it
\* with empty messages and events.
C19_CreatedAndPersisted ==
  AfterCreate => CreatedInIndex /\ CreatedInStorage

\* C19, amended: createSession appends a session under a fresh id, named
\* New Session when no name is given, with empty messageIds and eventIds, and
\* it becomes the active session; when the storage medium is usable and the
\* list with the new record is accepted by the first write, storage
\* immediately holds a record for it with empty messages and events; on an
\* unusable medium the stored item is left as it was.
C19_CreatedAndPersistedIfRoom ==
  AfterCreate =>
    /\ CreatedInIndex
    /\ (/\ lastSave[1].writes # << >>
        /\ lastSave[1].writes[1].ok) => CreatedInStorage
    /\ (\/ ~windowDefined
        \/ Used(sessionCall[1].storedBefore) + ProbeItemSize > capacity)
         => storage = sessionCall[1].storedBefore

\* a session was created without a name next to listed sessions, and stored
C19_Witness ==
  /\ AfterCreate
  /\ sessionCall[1].arg = Undefined
  /\ Len(sessionCall[1].before.sessions) >= 2
  /\ sessionCall[1].before.activeSessionId # Null
  /\ lastSave[1].writes # << >>
  /\ lastSave[1].writes[1].ok
  /\ Len(Parse(storage[1])) = Len(sessionStore.sessions)
  /\ CreatedInStorage

Without(sessions, sessionId) ==
  LET index == FindIndex(sessions, sessionId)
  IN IF index = 0 THEN sessions
     ELSE SubSeq(sessions, 1, index - 1)
            \o SubSeq(sessions, index + 1, Len(sessions))

AfterDelete == sessionCall # Undefined /\ sessionCall[1].op = "deleteSession"

\* C20: deleteSession(id) removes exactly that session from the index and
\* keeps the others in their order; if id was the active session the first
\* remaining session becomes active, or none when the index is empty;
\* otherwise the active session stays.
C20_DeleteKeepsOrderAndPicksFirst ==
  AfterDelete =>
    /\ sessionStore.sessions
         = Without(sessionCall[1].before.sessions, sessionCall[1].arg)
    /\ sessionStore.activeSessionId =
         IF sessionCall[1].before.activeSessionId # sessionCall[1].arg
           THEN sessionCall[1].before.activeSessionId
         ELSE IF sessionStore.sessions = << >> THEN Null
         ELSE sessionStore.sessions[1].id

\* the active session, second of three or more, was deleted
C20_Witness ==
  /\ AfterDelete
  /\ Len(sessionCall[1].before.sessions) >= 3
  /\ sessionCall[1].before.activeSessionId = sessionCall[1].arg
  /\ sessionCall[1].before.sessions[2].id = sessionCall[1].arg
  /\ sessionStore.activeSessionId = sessionCall[1].before.sessions[1].id

\* the records the stored item holds, read without the probe
StoredRecords == IF storage = Undefined THEN << >> ELSE Parse(storage[1])

Gone(sessionId) ==
  /\ FindIndex(sessionStore.sessions, sessionId) = 0
  /\ FindIndex(StoredRecords, sessionId) = 0

\* C21: after deleteSession(id) the index entry and the persisted record of
\* id are gone, and no later operation brings a persisted record of id back,
\* the updateSession of a sandbox initialization that read the session before
\* the delete and finishes after it included.
C21_DeletedStaysGone == \A sessionId \in deleted : Gone(sessionId)

RecordsOf(item) == IF item = Undefined THEN << >> ELSE Parse(item[1])

AfterUpdate == sessionCall # Undefined /\ sessionCall[1].op = "updateSession"

\* the record of sessionId in a list of records that holds one
RecordOf(records, sessionId) == records[FindIndex(records, sessionId)]

AfterSaveMessages ==
  /\ sessionCall # Undefined
  /\ sessionCall[1].op = "saveSessionMessages"
  /\ FindIndex(sessionCall[1].before.sessions, sessionCall[1].arg) > 0

EventsBefore(item, sessionId) ==
  IF FindIndex(RecordsOf(item), sessionId) > 0
    THEN RecordOf(RecordsOf(item), sessionId).events
    ELSE << >>

\* C23: for every session of the index, after saveSessionMessages(id,
\* messages) loadSessionData(id).messages is the given array, in full and in
\* order, and the persisted events of the session are as they were.
C23_SavedMessagesLoadBack ==
  AfterSaveMessages =>
    LET data == loadSessionData(storage, capacity, windowDefined,
                                sessionCall[1].arg, now)
    IN /\ data # Undefined
       /\ data[1].messages = sessionCall[1].result
       /\ data[1].events
            = EventsBefore(sessionCall[1].storedBefore, sessionCall[1].arg)

\* C24: in every state, for each session of the index, messageIds and
\* eventIds are the ids of the messages and events its persisted record
\* holds, whatever calls of the store came before.
C24_IndexIdsMatchStoredPayload ==
  ~sessionStore.isLoading =>
    \A i \in 1..Len(sessionStore.sessions) :
      LET session == sessionStore.sessions[i]
      IN /\ FindIndex(StoredRecords, session.id) > 0
         /\ session.messageIds
              = MessageIds(RecordOf(StoredRecords, session.id).messages)
         /\ session.eventIds
              = EventIds(RecordOf(StoredRecords, session.id).events)

NameIn(sessions, sessionId) == sessions[FindIndex(sessions, sessionId)].name

\* C25: automatic renaming only changes a session whose name is still New
\* Session: a saveSessionMessages call, or the load of the stored sessions
\* when the provider mounts, leaves every other name as it was.
C25_OnlyNewSessionIsRenamed ==
  /\ (sessionCall # Undefined /\ sessionCall[1].op = "saveSessionMessages") =>
       \A i \in 1..Len(sessionCall[1].before.sessions) :
         LET old == sessionCall[1].before.sessions[i]
         IN /\ FindIndex(sessionStore.sessions, old.id) > 0
            /\ NameIn(sessionStore.sessions, old.id) # old.name
                 => old.name = "New Session"
  /\ (sessionCall # Undefined /\ sessionCall[1].op = "mount") =>
       \A i \in 1..Len(sessionStore.sessions) :
         LET session == sessionStore.sessions[i]
             records == RecordsOf(sessionCall[1].storedBefore)
         IN /\ FindIndex(records, session.id) > 0
            /\ session.name # RecordOf(records, session.id).name
                 => RecordOf(records, session.id).name = "New Session"

AfterDerive ==
  /\ sessionCall # Undefined
  /\ sessionCall[1].op = "generateSessionNameFromMessages"

UserMessages(messages) == SelectSeq(messages, LAMBDA m : m.role = "user")

\* the text a user message carries: its first text part, its content when
\* that part is missing or blank
TextOfMessage(message) ==
  LET textParts == SelectSeq(message.parts, LAMBDA part : part.type = "text")
  IN IF textParts # << >> /\ Trim(textParts[1].text) # ""
       THEN textParts[1].text
     ELSE IF Trim(message.content) # "" THEN message.content
     ELSE ""

HasSpaceRun(text) ==
  \E i \in 1..Len(text) :
    /\ IsSpace(SubSeq(text, i, i))
    /\ \/ SubSeq(text, i, i) # " "
       \/ i = 1
       \/ i = Len(text)
       \/ IsSpace(SubSeq(text, i + 1, i + 1))

\* C26: the derived name is the text of the first user message with every
\* whitespace run collapsed to one space and trimmed, cut to at most 30
\* characters: a prefix of the collapsed text, never empty, the same whatever
\* messages follow the first user message; without such a text there is no
\* name.
C26_NameIsCollapsedPrefix ==
  AfterDerive =>
    LET users == UserMessages(sessionCall[1].arg)
        name == sessionCall[1].result
    IN IF users = << >> \/ TextOfMessage(users[1]) = "" THEN name = Null
       ELSE LET collapsed == Trim(CollapseWhitespace(TextOfMessage(users[1])))
            IN /\ name # Null
               /\ name # ""
               /\ Len(name) <= 30
               /\ Len(name) <= Len(collapsed)
               /\ name = SubSeq(collapsed, 1, Len(name))
               /\ ~HasSpaceRun(name)
               /\ Len(collapsed) <= 30 => name = collapsed
               /\ Len(collapsed) > 30 =>
                    name = TrimEnd(SubSeq(collapsed, 1, 30))

\* an agent turn comes first, the user's text has whitespace runs, and the
\* cut falls on a space
C26_Witness ==
  /\ AfterDerive
  /\ Len(sessionCall[1].arg) = 2
  /\ sessionCall[1].arg[1].role = "assistant"
  /\ sessionCall[1].arg[2].role = "user"
  /\ sessionCall[1].result = "abcdefghijklmnopqrstuvwxyz012"

\* a saveSessionMessages call with a list that is not empty and from which no
\* name can be derived
AfterSaveWithoutText ==
  /\ AfterSaveMessages
  /\ sessionCall[1].result # << >>
  /\ generateSessionNameFromMessages(sessionCall[1].result) = Null

\* C27: when a non-empty message list yields no text and the session is still
\* named New Session, saveSessionMessages names it Session N, N being the
\* 1-based position of the session in the index; a session with another name
\* keeps it.
C27_FallbackNameIsPosition ==
  AfterSaveWithoutText =>
    LET sessions == sessionCall[1].before.sessions
        sessionId == sessionCall[1].arg
    IN NameIn(sessionStore.sessions, sessionId) =
         IF NameIn(sessions, sessionId) = "New Session"
           THEN "Session " \o ToString(FindIndex(sessions, sessionId))
           ELSE NameIn(sessions, sessionId)

\* the second session of the index, still New Session, got an agent turn
C27_Witness ==
  /\ AfterSaveWithoutText
  /\ FindIndex(sessionCall[1].before.sessions, sessionCall[1].arg) = 2
  /\ NameIn(sessionCall[1].before.sessions, sessionCall[1].arg) = "New Session"
  /\ NameIn(sessionStore.sessions, sessionCall[1].arg) = "Session 2"

EntryOf(sessions, sessionId) == sessions[FindIndex(sessions, sessionId)]

\* C28: updateSession changes only what its caller touched: the rebinding of
\* the sandbox by an initialization that read the session before a
\* saveSessionMessages or saveSessionEvents leaves name, messageIds and
\* eventIds of the session as they were, in the index and in storage.
C28_UpdateKeepsUntouchedFields ==
  AfterUpdate =>
    LET sessionId == sessionCall[1].arg
        sessions == sessionCall[1].before.sessions
        records == RecordsOf(sessionCall[1].storedBefore)
    IN /\ FindIndex(sessions, sessionId) > 0 =>
            /\ EntryOf(sessionStore.sessions, sessionId).name
                 = EntryOf(sessions, sessionId).name
            /\ EntryOf(sessionStore.sessions, sessionId).messageIds
                 = EntryOf(sessions, sessionId).messageIds
            /\ EntryOf(sessionStore.sessions, sessionId).eventIds
                 = EntryOf(sessions, sessionId).eventIds
       /\ (FindIndex(records, sessionId) > 0
             /\ FindIndex(StoredRecords, sessionId) > 0) =>
            /\ RecordOf(StoredRecords, sessionId).name
                 = RecordOf(records, sessionId).name
            /\ RecordOf(StoredRecords, sessionId).eventIds
                 = RecordOf(records, sessionId).eventIds

\* the last save went through the reduced write, and that write was accepted
ReducedWritten ==
  /\ lastSave # Undefined
  /\ Len(lastSave[1].writes) = 2
  /\ lastSave[1].writes[2].ok

KeptWithEvents(session) ==
  /\ FindIndex(StoredRecords, session.id) > 0
  /\ StringifyEvents(RecordOf(StoredRecords, session.id).events)
       = StringifyEvents(session.events)

\* C29: when saveSession(s) ends with the reduced write accepted, the record
\* of s, the session touched last, is still stored and carries its full
\* events, wherever s sits in insertion order.
C29_TouchedSessionKeepsEvents ==
  [][\A session \in SuppliedSessions :
       (SaveSession(session) /\ ReducedWritten') => KeptWithEvents(session)']_vars

\* no save is pending: the stream has ended and the save timer has fired
Quiescent ==
  /\ ~sessionStore.isLoading
  /\ getActiveSession(sessionStore) # Undefined
  /\ streamStatus = "ready"
  /\ saveTimeoutRef = Undefined

\* C30: every change of the active session's messages and of its event log
\* ends up persisted: once no save is pending, the persisted messages and
\* events of the active session are the ones in memory.
C30_PersistedEqualsInMemory ==
  Quiescent =>
    LET sessionId == getActiveSession(sessionStore)[1].id
    IN /\ FindIndex(StoredRecords, sessionId) > 0
       /\ RecordOf(StoredRecords, sessionId).messages = chatMessages
       /\ StringifyEvents(RecordOf(StoredRecords, sessionId).events)
            = StringifyEvents(eventStore.events)

\* the messages the record of the active session holds
ActiveMessagesStored ==
  IF getActiveSession(sessionStore) = Undefined
       \/ FindIndex(StoredRecords, getActiveSession(sessionStore)[1].id) = 0
    THEN << >>
    ELSE RecordOf(StoredRecords, getActiveSession(sessionStore)[1].id).messages

\* C31: message changes that arrive while a flush is pending are coalesced:
\* the change saves nothing itself, it cancels the pending flush and schedules
\* one for the new list, and when the timer fires the one saveSessionMessages
\* call carries the latest list.
C31_BurstIsCoalesced ==
  [][/\ (chatMessages' # chatMessages /\ saveTimeoutRef # Undefined) =>
          /\ saveTimeoutRef' # Undefined
          /\ saveTimeoutRef'[1].messages = chatMessages'
          /\ lastSavedMessagesRef' = lastSavedMessagesRef
          /\ ActiveMessagesStored' = ActiveMessagesStored
     /\ (saveTimeoutRef # Undefined
           /\ lastSavedMessagesRef' # lastSavedMessagesRef) =>
          /\ ActiveMessagesStored' = chatMessages
          /\ lastSavedMessagesRef' = Signature(chatMessages)
          /\ saveTimeoutRef' = Undefined]_vars

\* a flush ran while the agent's turn was streaming, after the changes that
\* brought its parts, and it carried both messages
C31_Witness ==
  /\ streamStatus = "streaming"
  /\ saveTimeoutRef = Undefined
  /\ Len(chatMessages) = 2
  /\ chatMessages[2].parts # << >>
  /\ lastSavedMessagesRef = Signature(chatMessages)
  /\ ActiveMessagesStored = chatMessages

AttemptsMade(call) == call.connects + call.creates + call.getUrls

\* C32: the sandbox-connect sequence is bounded: a call makes at most 3 create
\* attempts and at most 5 getUrl attempts, every step of a running call is one
\* more attempt (so a call ends after at most 8 of them), a call that has ended
\* makes no further attempt, and a call that ends by throwing throws the last
\* error it met (wrapped by getDesktopURL), a call that ends by returning
\* carries the url and the id of the sandbox it reached.
C32_ConnectIsBounded ==
  [][\A call \in {desktopCall[i] : i \in 1..Len(desktopCall)} :
       /\ call.creates <= 3 /\ call.getUrls <= 5 /\ AttemptsMade(call) <= 8
       /\ (~Terminated(call) /\ desktopCall' # desktopCall) =>
            /\ desktopCall'[1].id = call.id
            /\ AttemptsMade(desktopCall'[1]) = AttemptsMade(call) + 1
            /\ desktopCall'[1].creates <= 3 /\ desktopCall'[1].getUrls <= 5
       /\ (Terminated(call) /\ desktopCall' # desktopCall) =>
            desktopCall' = Some(NewDesktopCall(desktopCall'[1].id))
       /\ call.phase = "thrown" =>
            /\ call.errors # << >>
            /\ \E i \in 1..Len(call.outcome[1].message) :
                 SubSeq(call.outcome[1].message, i,
                        Len(call.outcome[1].message))
                   = call.errors[Len(call.errors)]
                 \/ (call.connects = 1 /\ i = 1)
       /\ call.phase = "returned" =>
            /\ call.outcome[1].id = call.sandboxId
            /\ call.sandboxId # Null]_vars

C32_Witness ==
  /\ desktopCall # Undefined /\ desktopCall[1].phase = "thrown"
  /\ desktopCall[1].getUrls = 5 /\ desktopCall[1].creates = 3
  /\ Len(desktopCall[1].errors) = 7

IndexEntry(sessionId) ==
  sessionStore.sessions[FindIndex(sessionStore.sessions, sessionId)]

\* C33: when connecting to a session's sandbox failed with not-found and the
\* replacement was created, the session that asked for the connection is bound
\* to the replacement's id in the index and in storage, and the stream and the
\* sandbox id on display are the replacement's.
C33_RequesterBoundToReplacement ==
  (/\ vnc.settled # Undefined
   /\ vnc.settled[1].how = "recovered"
   /\ isNotFoundError(vnc.settled[1].error)) =>
     /\ IndexEntry(vnc.settled[1].requester).sandboxId = vnc.settled[1].id
     /\ RecordOf(StoredRecords, vnc.settled[1].requester).sandboxId
          = vnc.settled[1].id
     /\ vnc.sandboxId = vnc.settled[1].id
     /\ vnc.streamUrl = <<"stream of ", vnc.settled[1].id>>

\* C39: at most one sandbox initialization is in flight: never more than one
\* getDesktopURL call is awaited, initialize() called while one is running
\* returns without starting a call, and every way an initialization ends
\* (connected, recovered, failed) clears the in-flight flag, so the flag is
\* set only while a call is awaited.
C39_OneInitializationInFlight ==
  [][/\ vnc.inFlight <= 1
     /\ vnc.isInitializingRef = (vnc.call # Undefined)
     /\ (vnc.call # Undefined) = (vnc.inFlight = 1)
     /\ (vnc.isInitializingRef /\ vnc'.returnedEarly /\ ~vnc.returnedEarly) =>
          /\ vnc'.inFlight = vnc.inFlight
          /\ vnc'.call = vnc.call
     /\ (vnc.call # Undefined /\ vnc'.settled # Undefined) =>
          /\ vnc'.settled[1].how \in {"connected", "recovered", "failed"}
          /\ ~vnc'.isInitializingRef
          /\ vnc'.inFlight = 0
     /\ (vnc.call # Undefined /\ vnc'.call # vnc.call
           /\ vnc'.settled = Undefined) =>
          vnc'.inFlight = 1]_vars

\* initialize() was called during an initialization and returned early
C39_Witness ==
  /\ vnc.isInitializingRef /\ vnc.returnedEarly
  /\ vnc.inFlight = 1 /\ vnc.call[1].phase = "handleDesktopError"

\* the tool invocation of the latest delta
LastDelta == lastStream[1].messages[2].parts[1].toolInvocation

EventWithId(state, id) ==
  state.events[CHOOSE i \in 1..Len(state.events) : state.events[i].id = id]

\* C34: a result delta for an event of the log, seen for the first time,
\* marks the event error exactly when the raw result is the string
\* 'User aborted' or a string beginning with 'Error', and then the error field
\* is that string; otherwise it marks it complete without an error field. The
\* stored result follows the shape of the raw one: a non-empty string and a
\* text object give a text result, an image object with data gives an image
\* result of type image/png, and any other raw result gives none.
C34_ResultDeltaMarksEvent ==
  [][(/\ lastStream' # Undefined
      /\ lastStream' # lastStream \/ eventStore' # eventStore
      /\ LastDelta'.state = "result"
      /\ <<LastDelta'.toolCallId, "result">> \notin processedToolCalls
      /\ \E i \in 1..Len(eventStore.events) :
           eventStore.events[i].id = LastDelta'.toolCallId) =>
       LET raw == LastDelta'.result
           event == EventWithId(eventStore', LastDelta'.toolCallId)
           isErrorString ==
             /\ raw.kind = "string"
             /\ raw.text \in {"User aborted", "Error: boom", "Error"}
       IN /\ event.status = IF isErrorString THEN "error" ELSE "complete"
          /\ event.error = IF isErrorString THEN Some(raw.text) ELSE Undefined
          /\ event.result =
               IF raw.kind = "string" /\ raw.text # ""
                 THEN Some([type |-> "text", text |-> raw.text])
               ELSE IF raw = ResultTextObj
                 THEN Some([type |-> "text", text |-> "out"])
               ELSE IF raw = ResultImage
                 THEN Some([type |-> "image", data |-> "b64",
                            mimeType |-> "image/png"])
               ELSE Undefined]_vars

\* one event ended in error on 'Error', the other complete with an image
C34_Witness ==
  /\ Len(eventStore.events) = 2
  /\ \E i, j \in 1..2 :
       /\ eventStore.events[i].status = "error"
       /\ eventStore.events[i].error = Some("Error")
       /\ eventStore.events[j].status = "complete"
       /\ eventStore.events[j].result # Undefined
       /\ eventStore.events[j].result[1].type = "image"

\* C35: selectEvent(id) with an id that no event of the log has leaves
\* selectedEventId and the rest of the Event Store state as they were.
C35_SelectOfAbsentIdIsNoOp ==
  (/\ calls # << >>
   /\ LastCall.op = "selectEvent"
   /\ LastCall.arg # Null
   /\ \A i \in 1..Len(LastCall.before.events) :
        LastCall.before.events[i].id # LastCall.arg)
    => eventStore = LastCall.before

\* the names generateSessionName can give to the sessions of a run
FallbackNames == {generateSessionName(k) : k \in 0..(MaxCreated + 2)}

\* C36: no two sessions of the index carry the same 'Session N' fallback
\* name, after any sequence of createSession, deleteSession and
\* saveSessionMessages.
C36_FallbackNamesAreUnique ==
  \A i, j \in 1..Len(sessionStore.sessions) :
    (/\ i # j
     /\ sessionStore.sessions[i].name \in FallbackNames)
      => sessionStore.sessions[i].name # sessionStore.sessions[j].name

\* C37: each countdown produces at most one resend, made by the callback
\* captured for that countdown and carrying the message captured for it, and
\* a countdown that captured a message and was not cancelled has produced its
\* resend once no timer is pending: a failure that arrives while the deferred
\* resend of an earlier countdown is pending neither resends early nor loses
\* the resend of the new countdown.
C37_OneResendPerCountdown ==
  /\ \A n \in 1..Len(entries) : Cardinality(ResendsOf(n)) <= 1
  /\ \A i \in DOMAIN resends :
       /\ resends[i].callback = resends[i].origin
       /\ resends[i].message = entries[resends[i].origin].message
  /\ \A n \in 1..Len(entries) :
       (/\ NoTimerPending
        /\ n \notin cancelled
        /\ n = Len(entries)
        /\ entries[n].message # Null)
         => Cardinality(ResendsOf(n)) = 1

\* the stored record of the session no exchange took place in
OtherSessionRecord == RecordOf(StoredRecords, "s3")

\* C38: messages and events are persisted only under the session they were
\* produced in: with every exchange taking place in session s2, the stored
\* record of session s3 holds no message and no event, whenever the active
\* session is switched.
C38_SavedUnderOwnSession ==
  (~sessionStore.isLoading /\ FindIndex(StoredRecords, "s3") # 0) =>
    /\ OtherSessionRecord.messages = << >>
    /\ OtherSessionRecord.events = << >>

====
